---------------------------- MODULE Spec2Model ----------------------------
(***************************************************************************)
(* Crypto momentum screener backend: the per-exchange Aggregator           *)
(* (throttled snapshot emission, subscriber fan-out), the StreamManager    *)
(* supervisor (stream tasks, stall watchdogs, task health monitor, stop)   *)
(* and the exchanges' websocket reconnect loops.                           *)
(*                                                                         *)
(* Time is in epoch milliseconds, as in the code.  Coroutines are split    *)
(* at their await points; everything between two awaits is one step.       *)
(* The Binance and Bybit halves of the supervisor are textual copies of    *)
(* each other working on two Aggregator instances; the aggregator state    *)
(* and the watchdogs are modelled for one instance (self.agg), the task    *)
(* slots for both.                                                         *)
(***************************************************************************)
EXTENDS Integers, Sequences, FiniteSets, TLC

\* ------------------------------------------------------------------ bounds
StartMs == 100000
MaxNow == 160000
MaxEmits == 3
MaxBurst == 103
MaxClock == 200000
MaxWdEmits == 5
MaxDeaths == 2
MaxStopCalls == 2
MaxFails == 7
MaxRefreshClock == 610000
MaxRefreshIters == 2
MaxRefreshEmits == 4
MaxBackfillClock == 160000
MaxBackfillEmits == 2
MaxFeed == 61
MaxVaried == 3
MaxIntrabar == 2
MaxUpserts == 4
MaxAlertClock == 130000
MaxAlertEmits == 3
MaxPersistEmits == 1
MaxForward == 3
MaxAnalysisClock == 130000
MaxAnalysisEmits == 3
MaxNotifyClock == 400000
MaxIngestClock == 160000
MaxIngestEmits == 2
MaxLimit == 2
MaxStOps == 3
MaxLiveClock == 160001
MaxLiveEmits == 2
MaxSupClock == 303000
MaxShutdownClock == 180000
MaxReplays == 2

\* --------------------------------------------------------- program constants
SNAPSHOT_INTERVAL_MS == 30000
QueueMaxSize == 100
WD_INTERVAL_MS == 20000
WD_TIMEOUT_MS == 60000
BACKOFF_START == 1
BACKOFF_CAP == 30
REFRESH_PERIOD_S == 300
FULL_REFRESH_OFFSET_SEC == 2
MINUTE_MS == 60000
HTF_INTERVAL_MS == [tf \in {"15m", "4h"} |-> IF tf = "15m" THEN 15 * 60000 ELSE 240 * 60000]
MAXLEN_1M == 120
CIPHERB_OS_LEVEL == -40
CIPHERB_OB_LEVEL == 40
DEFAULT_OS_LEVEL == -53
DEFAULT_OB_LEVEL == 53
WT_CHLEN == 9
WT_AVG == 12
WT_MALEN == 3
ATR_MULT_HALVES == 5
MIN_TRADES == 5
ALERT_DEDUP_MIN_MS == 60000
ALERT_COOLDOWN_TOP_MS == 120000
ALERT_COOLDOWN_SMALL_MS == 300000

TickMs == {10000, 30000}
QueueIds == {"q1"}
EmitTasks == {"kline", "ticker", "refresh"}
NoPayload == [seq |-> 0, ts |-> 0]

VARIABLES
    now,                    \* wall clock, int(time.time() * 1000)
    last_emit_ts,           \* Aggregator.last_emit_ts
    last_kline_ingest_ts,   \* Aggregator.last_kline_ingest_ts
    last_ticker_ingest_ts,  \* Aggregator.last_ticker_ingest_ts
    last_ingest_ts,         \* Aggregator.last_ingest_ts
    subscribers,            \* Aggregator._subscribers (list of queues)
    queues,                 \* contents of each asyncio.Queue(maxsize=100)
    built,                  \* number of snapshots built so far (payload identity)
    emitPc,                 \* per calling task: position inside _emit_snapshot
    emitPayload,            \* per calling task: the payload it built
    lastDueTs,              \* history: last_emit_ts stamped by the latest emit_if_due emission
    lastFanout,             \* history: payload of the latest fan-out
    enable_full_refresh,    \* config.ENABLE_FULL_REFRESH_5M
    startPc,                \* position inside StreamManager.start()
    task,                   \* state of the asyncio.Task each supervisor slot refers to
    created,                \* number of tasks created per slot (the slot's task is the latest)
    old,                    \* per slot: the states of the tasks the slot no longer refers to
    wdPc,                   \* per watchdog: off / sleeping / restarting (inside restart_cb)
    wdAwait,                \* per watchdog: which task of the slot restart_cb awaits (0: none)
    wdWake,                 \* per watchdog: when its asyncio.sleep(interval) ends
    wdInvoked,              \* history: restart_cb invocations per watchdog
    wdCreated,              \* history: tasks created by each watchdog's restart_cb
    wdSeen,                 \* history: the last-ingest value at the latest restart invocation
    wdCount,                \* history: consecutive restart invocations that saw wdSeen
    deaths,                 \* history: number of tasks that terminated on their own
    monitorLeft,            \* history: done tasks the latest health-monitor pass left done
    stopPc,                 \* position inside StreamManager.stop()
    stopIdx,                \* index into stop()'s task list while awaiting
    stopIds,                \* stop()'s task list: per slot, the task it held when stop() began
    stopCalls,              \* history: number of stop() calls
    afterFirst,             \* history: supervisor state when the first stop() ended
    oi_client,              \* OpenInterestFetcher._client: none / open
    client_closed,          \* StreamManager._client closed (aclose())
    rcPc,                   \* per reconnect loop: connecting / open / sleeping / cancelled
    backoff,                \* per reconnect loop: its local "backoff" (seconds)
    rcDelay,                \* history: the delay of the sleep in progress (0: none)
    rcFails,                \* history: failures since the last successful connect
    rcGot,                  \* history: a message was received on the open connection
    frPc,                   \* position inside _run_full_refresh_loop
    frIdx,                  \* which of the four _restart_* calls the loop is in
    frAwait,                \* which task of the slot that _restart_* call awaits (0: none)
    frWake,                 \* when the loop's asyncio.sleep(sleep_s) ends
    frSleepStart,           \* history: time.time() when the loop computed its sleep
    frLog,                  \* history: the phases the current iteration has completed
    frRestarted,            \* history: slots whose task the current iteration replaced
    frFailed,               \* history: the phases of the current iteration that failed
    frIters,                \* history: number of completed iterations
    bfPc,                   \* position inside _backfill_binance: idle / running / done / raised
    bfIdx,                  \* index of the symbol the "for s in syms" loop is at
    bfIngested,             \* symbols whose 1m rows all went through agg.ingest
    bfStored,               \* (symbol, interval) pairs upserted into the candle store
    bfSeeded,               \* symbols whose HTF series were seeded from the store
    bfFail,                 \* history: the stage at which each symbol's backfill failed
    rsStart,                \* open_time of the first 1m candle fed (-1: none yet)
    rsFed,                  \* history: number of closed 1m candles fed
    rsVaried,               \* history: how many of them had the second shape
    rsIntrabar,             \* history: number of non-closed updates
    rsReplayed,             \* history: number of backfill steps (a candle fed again, a reseed)
    rsLastClosed,           \* history: the kind of the latest update: none / closed / intrabar
    rsLen1m,                \* SymbolState: length of the 1m deques (close_1m, high_1m, ...)
    rsLastPrice,            \* SymbolState.last_price (0: None)
    rsCurrent,              \* SymbolState._htf[tf]['current']
    rsSeries,               \* SymbolState._htf[tf]: the close/high/low/vol rolling series,
                            \* each entry tagged with the open_time of its bucket
    rsExpect,               \* history: per 15m bucket, the aggregate of the closed candles fed
    ohlc,                   \* the ohlc table of the candle store: a set of rows
    ohlc_rowids,            \* number of rowids the ohlc table has handed out
    db_last_rowid,          \* the connection's sqlite3_last_insert_rowid()
    lastUpsert,             \* history: arguments of the latest upsert_candle
    upserts,                \* history: number of direct upsert_candle calls
    dbReplaced,             \* history: the latest upsert_candle changed an existing row
    alerts,                 \* the alerts table: a set of rows
    alerts_seq,             \* the AUTOINCREMENT sequence of the alerts table
    trade_plans,            \* the trade_plans table: a set of rows
    plans_seq,              \* the AUTOINCREMENT sequence of the trade_plans table
    emMetrics,              \* history: snap.metrics of the latest persisting emit
    emFails,                \* history: what raised for each of those metrics
    emLog,                  \* history: the insert_alert calls of the latest persisting emit
    emAborted,              \* history: the latest persist loop was left by an exception
    wtLen,                  \* SymbolState._htf[tf]: number of closed bars held (counted up to WT_MIN_BARS)
    wtTail,                 \* the last values of wavetrend's wt1_series over _htf[tf]
    wtMetric,               \* the cipher fields of the latest SymbolMetrics
    grSignal,               \* the signal argument of the latest grade_alert call
    grMetrics,              \* the metrics argument of the latest grade_alert call
    grResult,               \* what that call returned (score in halves, grade)
    grPrev,                 \* history: the result before the latest call, when that call only raised rvol_1m
    tpArgs,                 \* the arguments of the latest build_trade_plan call
    tpPlan,                 \* the TradePlan it returned (prices in quarters), or that it raised
    btPlan,                 \* the trade_plans row joined to the alert under simulation (prices in 1/20)
    btForward,              \* get_after(ex, sym, '15m', created_ts, limit): the forward candles
    btRes,                  \* the BacktestTradeResult of the latest simulation
    backtest_trades,        \* the backtest_trades table (without its autoincrement id)
    strategyVersion,        \* backtester.STRATEGY_VERSION of the running build
    symbol_win_rates,       \* grader._symbol_win_rates
    anLast,                 \* history: the latest analysis step and the table before it
    last_alert_ts,          \* alerter._last_alert_ts: "exchange:symbol:type" -> ms
    last_symbol_alert_ts,   \* alerter._last_symbol_alert_ts: "exchange:symbol" -> ms
    ntSent,                 \* history: the notifications queued by the latest process_metrics call
    ntCallTs,               \* history: now_ms of that call
    ntPrev,                 \* history: per symbol and type, when an earlier call last notified
    rbArgs,                 \* the arguments of the latest read of recent candles
    rbBatch,                \* what get_recent_batch returned for them
    rbSingle,               \* what get_recent returned for each requested symbol
    states,                 \* Aggregator._states: symbol -> SymbolState
    state_keys,             \* the insertion order of the _states dict
    snLast,                 \* history: the latest _build_snapshot_payload result
    snPrev,                 \* history: the result before it, no update lying between the two
    stOps,                  \* history: number of operations on the symbol states
    stLast,                 \* history: the latest of them
    sigRows                 \* history: per symbol, the alerts and trade_plans rows
                            \* inserted since its latest closed HTF bar

aggVars == <<last_emit_ts, last_kline_ingest_ts, last_ticker_ingest_ts, last_ingest_ts,
             subscribers, queues, built, emitPc, emitPayload, lastDueTs, lastFanout>>

supVars == <<enable_full_refresh, startPc, task, created, old, wdPc, wdAwait, wdWake,
             wdInvoked, wdCreated, wdSeen, wdCount, deaths, monitorLeft, stopPc, stopIdx,
             stopIds, stopCalls, afterFirst, oi_client, client_closed>>

rcVars == <<rcPc, backoff, rcDelay, rcFails, rcGot>>

frVars == <<frPc, frIdx, frAwait, frWake, frSleepStart, frLog, frRestarted, frFailed,
            frIters>>

bfVars == <<bfPc, bfIdx, bfIngested, bfStored, bfSeeded, bfFail>>

rsVars == <<rsStart, rsFed, rsVaried, rsIntrabar, rsReplayed, rsLastClosed, rsLen1m, rsLastPrice,
            rsCurrent, rsSeries, rsExpect>>

dbVars == <<ohlc, ohlc_rowids, db_last_rowid, lastUpsert, upserts, dbReplaced>>

alVars == <<alerts, alerts_seq, trade_plans, plans_seq, emMetrics, emFails, emLog,
            emAborted>>

sigVars == <<wtLen, wtTail, wtMetric>>

grVars == <<grSignal, grMetrics, grResult, grPrev>>

calcVars == <<sigVars, grVars>>

planVars == <<tpArgs, tpPlan>>

btVars == <<btPlan, btForward, btRes>>

runVars == <<backtest_trades, strategyVersion, symbol_win_rates, anLast>>

ntVars == <<last_alert_ts, last_symbol_alert_ts, ntSent, ntCallTs, ntPrev>>

rbVars == <<rbArgs, rbBatch, rbSingle>>

stVars == <<states, state_keys, snLast, snPrev, stOps, stLast, sigRows>>

anVars == <<planVars, btVars, runVars, ntVars, rbVars, stVars>>

dataVars == <<rsVars, dbVars, alVars, calcVars, anVars>>

\* everything but anVars
coreVars == <<now, aggVars, supVars, rcVars, frVars, bfVars, rsVars, dbVars, alVars,
              calcVars>>

extVars == <<frVars, bfVars, dataVars>>

vars == <<now, aggVars, supVars, rcVars, extVars>>

Max(a, b) == IF a >= b THEN a ELSE b
Min(a, b) == IF a <= b THEN a ELSE b
Range(s) == {s[i] : i \in 1..Len(s)}
Last(s) == s[Len(s)]
RemoveFirst(s, x) ==
    LET i == CHOOSE k \in 1..Len(s) : s[k] = x /\ \A j \in 1..(k - 1) : s[j] # x
    IN  SubSeq(s, 1, i - 1) \o SubSeq(s, i + 1, Len(s))

\* ------------------------------------------------------------- Aggregator

\* Aggregator.__init__: every timestamp starts at the construction time.
AggInit ==
    /\ last_emit_ts = now
    /\ last_kline_ingest_ts = now
    /\ last_ticker_ingest_ts = now
    /\ last_ingest_ts = now
    /\ subscribers = <<>>
    /\ queues = [q \in QueueIds |-> <<>>]
    /\ built = 0
    /\ emitPc = [t \in EmitTasks |-> "idle"]
    /\ emitPayload = [t \in EmitTasks |-> NoPayload]
    /\ lastDueTs = 0
    /\ lastFanout = NoPayload

\* emit_if_due's test: "if now_ms - self.last_emit_ts < self._throttle_ms: return"
EmitIsDueNoThrottle(now_ms, last) == TRUE
EmitIsDue(now_ms, last) == ~(now_ms - last < SNAPSHOT_INTERVAL_MS)

\* The fan-out's queue operation: get_nowait() on a full queue, then put_nowait().
\* The result is the new content, and whether a queue operation raised.
QueuePutNoDrop(content, payload) ==
    IF Len(content) >= QueueMaxSize
    THEN [raised |-> TRUE, content |-> content]
    ELSE [raised |-> FALSE, content |-> Append(content, payload)]
QueuePut(content, payload) ==
    IF Len(content) = QueueMaxSize
    THEN [raised |-> FALSE, content |-> Append(Tail(content), payload)]
    ELSE [raised |-> FALSE, content |-> Append(content, payload)]

\* _emit_snapshot up to its first suspension (await process_metrics): builds
\* the payload and stamps last_emit_ts.
EmitBuild(t, viaDue, cap) ==
    /\ built < cap
    /\ built' = built + 1
    /\ last_emit_ts' = now
    /\ emitPayload' = [emitPayload EXCEPT ![t] = [seq |-> built + 1, ts |-> now]]
    /\ emitPc' = [emitPc EXCEPT ![t] = "dispatch"]
    /\ lastDueTs' = IF viaDue THEN now ELSE lastDueTs

\* emit_if_due as called at the end of ingest / update_ticker.
EmitIfDue(t, cap) ==
    /\ IF EmitIsDue(now, last_emit_ts)
       THEN EmitBuild(t, TRUE, cap)
       ELSE UNCHANGED <<built, last_emit_ts, emitPayload, emitPc, lastDueTs>>

\* Aggregator.ingest(k), called by task t: its effect on the aggregator.
IngestAgg(t, cap) ==
    /\ emitPc[t] = "idle"
    /\ last_kline_ingest_ts' = now
    /\ last_ingest_ts' = Max(now, last_ticker_ingest_ts)
    /\ EmitIfDue(t, cap)
    /\ UNCHANGED <<now, last_ticker_ingest_ts, subscribers, queues, lastFanout>>

\* Aggregator.ingest(k), called by task t.
Ingest(t, cap) ==
    /\ IngestAgg(t, cap)
    /\ UNCHANGED <<supVars, rcVars, extVars>>

\* Aggregator.update_ticker(symbol, price, ts_ms): "now_ms = ts_ms or time()".
UpdateTicker(t, ts_ms, cap) ==
    /\ emitPc[t] = "idle"
    /\ LET now_ms == IF ts_ms # 0 THEN ts_ms ELSE now
       IN  /\ last_ticker_ingest_ts' = now_ms
           /\ last_ingest_ts' = Max(last_kline_ingest_ts, now_ms)
    /\ EmitIfDue(t, cap)
    /\ UNCHANGED <<now, last_kline_ingest_ts, subscribers, queues, lastFanout>>
    /\ UNCHANGED <<supVars, rcVars, extVars>>

\* Aggregator.heartbeat_emit(), called by task t (start / full refresh).
HeartbeatEmit(t, cap) ==
    /\ emitPc[t] = "idle"
    /\ EmitBuild(t, FALSE, cap)
    /\ UNCHANGED <<now, last_kline_ingest_ts, last_ticker_ingest_ts, last_ingest_ts,
                   subscribers, queues, lastFanout>>
    /\ UNCHANGED <<supVars, rcVars, extVars>>

\* _emit_snapshot after process_metrics returned: fan out under the lock.
\* A subscriber whose queue operation raises is removed from the list.
EmitFanout(t) ==
    /\ emitPc[t] = "dispatch"
    /\ LET p == emitPayload[t]
           res == [q \in QueueIds |-> QueuePut(queues[q], p)]
           bad == {q \in Range(subscribers) : res[q].raised}
       IN  /\ queues' = [q \in QueueIds |->
                            IF q \in Range(subscribers) /\ q \notin bad
                            THEN res[q].content ELSE queues[q]]
           /\ subscribers' = SelectSeq(subscribers, LAMBDA q : q \notin bad)
           /\ lastFanout' = p
    /\ emitPc' = [emitPc EXCEPT ![t] = "idle"]
    /\ emitPayload' = [emitPayload EXCEPT ![t] = NoPayload]
    /\ UNCHANGED <<now, last_emit_ts, last_kline_ingest_ts, last_ticker_ingest_ts,
                   last_ingest_ts, built, lastDueTs>>
    /\ UNCHANGED <<supVars, rcVars, extVars>>

\* Aggregator.subscribe(): a new empty bounded queue is appended.
Subscribe(q) ==
    /\ q \notin Range(subscribers)
    /\ subscribers' = Append(subscribers, q)
    /\ queues' = [queues EXCEPT ![q] = <<>>]
    /\ UNCHANGED <<now, last_emit_ts, last_kline_ingest_ts, last_ticker_ingest_ts,
                   last_ingest_ts, built, emitPc, emitPayload, lastDueTs, lastFanout>>
    /\ UNCHANGED <<supVars, rcVars, extVars>>

\* Aggregator.unsubscribe(q)
Unsubscribe(q) ==
    /\ q \in Range(subscribers)
    /\ subscribers' = RemoveFirst(subscribers, q)
    /\ queues' = [queues EXCEPT ![q] = <<>>]
    /\ UNCHANGED <<now, last_emit_ts, last_kline_ingest_ts, last_ticker_ingest_ts,
                   last_ingest_ts, built, emitPc, emitPayload, lastDueTs,
                   lastFanout>>
    /\ UNCHANGED <<supVars, rcVars, extVars>>

\* The websocket handler's "payload = await q.get()".
SubscriberGet(q) ==
    /\ q \in Range(subscribers)
    /\ queues[q] # <<>>
    /\ queues' = [queues EXCEPT ![q] = Tail(queues[q])]
    /\ UNCHANGED <<now, last_emit_ts, last_kline_ingest_ts, last_ticker_ingest_ts,
                   last_ingest_ts, subscribers, built, emitPc, emitPayload, lastDueTs,
                   lastFanout>>
    /\ UNCHANGED <<supVars, rcVars, extVars>>

\* The wall clock advances.
Tick(d, horizon) ==
    /\ now + d <= horizon
    /\ now' = now + d
    /\ UNCHANGED <<aggVars, supVars, rcVars, extVars>>

\* ------------------------------------------------------------ StreamManager

Slots == {"_task", "_task_bybit", "_task_bin_ticker", "_task_bybit_ticker",
          "_task_bin_oi", "_task_bybit_oi", "_task_bybit_liquidations",
          "_task_health_monitor", "_task_full_refresh"}
StreamSlots == {"_task", "_task_bybit", "_task_bin_ticker", "_task_bybit_ticker"}
\* the order of the "tasks" list in stop()
StopOrder == <<"_task", "_task_bybit", "_task_bin_ticker", "_task_bybit_ticker",
               "_task_bin_oi", "_task_bybit_oi", "_task_bybit_liquidations",
               "_task_health_monitor", "_task_full_refresh">>
Done == {"cancelled", "failed", "finished"}
\* a task that has not terminated
Live == {"running", "cancelling"}
Watchdogs == {"binance_kline", "binance_ticker"}
NoSnapshot == [oi |-> "none", closed |-> FALSE, raised |-> FALSE]

\* the coroutine a slot's task runs, when it calls into the aggregator
Emitter(s) == IF s = "_task" THEN "kline" ELSE IF s = "_task_bin_ticker" THEN "ticker" ELSE "none"

\* how a running task can terminate on its own: a stream task when symbols()
\* raises (failed) or the symbol list is empty (finished); the liquidation
\* collector when it has no symbols or all its collectors ended.  The OI
\* loops, the health monitor and the full-refresh loop only end by cancellation.
DieModes(s) ==
    IF s = "_task" THEN {"failed"}
    ELSE IF s \in {"_task_bybit", "_task_bin_ticker", "_task_bybit_ticker",
                   "_task_bybit_liquidations"} THEN {"failed", "finished"}
    ELSE {}

\* restart_cb of each watchdog created by start()
WdSlot(w) == IF w = "binance_kline" THEN "_task" ELSE "_task_bin_ticker"

\* get_last_ingest_ms of each watchdog created by start()
WdLastAggregate(w) == last_ingest_ts
WdLast(w) == IF w = "binance_kline" THEN last_kline_ingest_ts ELSE last_ticker_ingest_ts

\* StreamWatchdog._run: "if last and now_ms - last > int(self._timeout_s*1000)"
WdStale(last, now_ms) == last # 0 /\ now_ms - last > WD_TIMEOUT_MS

\* StreamWatchdog._run: the next "await asyncio.sleep(self._interval_s)"
WdNextWakeNoSleep(now_ms) == now_ms
WdNextWake(now_ms) == now_ms + WD_INTERVAL_MS

\* task.cancel(): a task that is not done gets a cancellation request
CancelTask(st) == IF st = "running" THEN "cancelling" ELSE st

\* "if not t or t.done(): t = asyncio.create_task(...)"
StartIfAbsent(st) == IF st = "none" \/ st \in Done THEN "running" ELSE st

\* Assigning a new task to a slot: the task the slot referred to is no
\* longer referenced by the supervisor; it keeps the state it has.
Dereferenced(olds, st) == IF st = "none" THEN olds ELSE Append(olds, st)

\* The state of task number id of slot s (tasks are numbered from 1 in the
\* order of their creation; the slot refers to the latest; 0: no task).
TaskState(s, id) ==
    IF id = 0 THEN "none" ELSE IF id = created[s] THEN task[s] ELSE old[s][id]

\* "if self._task: self._task.cancel(); await self._task": the task a
\* _restart_* call awaits is the one the slot refers to at that moment
AwaitedOf(s) == created[s]

\* StreamManager.__init__ (and the configuration read at import)
SupInit ==
    /\ startPc = "new"
    /\ task = [s \in Slots |-> "none"]
    /\ created = [s \in Slots |-> 0]
    /\ old = [s \in Slots |-> <<>>]
    /\ wdPc = [w \in Watchdogs |-> "off"]
    /\ wdAwait = [w \in Watchdogs |-> 0]
    /\ wdWake = [w \in Watchdogs |-> 0]
    /\ wdInvoked = [w \in Watchdogs |-> 0]
    /\ wdCreated = [w \in Watchdogs |-> 0]
    /\ wdSeen = [w \in Watchdogs |-> 0]
    /\ wdCount = [w \in Watchdogs |-> 0]
    /\ deaths = 0
    /\ monitorLeft = {}
    /\ stopPc = "idle"
    /\ stopIdx = 0
    /\ stopIds = [s \in Slots |-> 0]
    /\ stopCalls = 0
    /\ afterFirst = NoSnapshot
    /\ oi_client = "none"
    /\ client_closed = FALSE

\* start(), first part: the four kline / ticker stream tasks are created.
\* start() is called once, by the application's startup hook.
StartStreams ==
    /\ startPc = "new"
    /\ startPc' = "backfill"
    /\ task' = [s \in Slots |-> IF s \in StreamSlots THEN StartIfAbsent(task[s]) ELSE task[s]]
    /\ created' = [s \in Slots |-> IF task'[s] # task[s] THEN created[s] + 1 ELSE created[s]]
    /\ old' = [s \in Slots |-> IF task'[s] # task[s] THEN Dereferenced(old[s], task[s]) ELSE old[s]]
    /\ UNCHANGED <<now, aggVars, rcVars, extVars, enable_full_refresh, wdPc, wdAwait,
                   wdWake, wdInvoked, wdCreated, wdSeen, wdCount, deaths, monitorLeft,
                   stopPc, stopIdx, stopIds, stopCalls, afterFirst, oi_client, client_closed>>

\* start(), backfill: every backfilled 1m row goes through agg.ingest.
StartBackfill ==
    /\ startPc = "backfill"
    /\ Ingest("refresh", MaxWdEmits)

\* start(), after the backfill: the OI fetcher is started, the initial OI is
\* stored (no emit) and the first snapshot is forced with heartbeat_emit.
StartHeartbeat ==
    /\ startPc = "backfill"
    /\ emitPc["refresh"] = "idle"
    /\ startPc' = "emit"
    /\ oi_client' = "open"
    /\ EmitBuild("refresh", FALSE, MaxWdEmits)
    /\ UNCHANGED <<now, last_kline_ingest_ts, last_ticker_ingest_ts, last_ingest_ts,
                   subscribers, queues, lastFanout>>
    /\ UNCHANGED <<rcVars, extVars, enable_full_refresh, task, created, old, wdPc, wdAwait,
                   wdWake, wdInvoked, wdCreated, wdSeen, wdCount, deaths, monitorLeft,
                   stopPc, stopIdx, stopIds, stopCalls, afterFirst, client_closed>>

\* start(), last part: OI and liquidation tasks, the watchdogs, the health
\* monitor and (when enabled) the full-refresh loop are created.
StartRest ==
    /\ startPc = "emit"
    /\ emitPc["refresh"] = "idle"
    /\ startPc' = "started"
    /\ LET startable == {"_task_bin_oi", "_task_bybit_oi", "_task_bybit_liquidations",
                         "_task_health_monitor"}
                        \cup (IF enable_full_refresh THEN {"_task_full_refresh"} ELSE {})
       IN  task' = [s \in Slots |-> IF s \in startable THEN StartIfAbsent(task[s]) ELSE task[s]]
    /\ created' = [s \in Slots |-> IF task'[s] # task[s] THEN created[s] + 1 ELSE created[s]]
    /\ old' = [s \in Slots |-> IF task'[s] # task[s] THEN Dereferenced(old[s], task[s]) ELSE old[s]]
    /\ wdPc' = [w \in Watchdogs |-> "sleeping"]
    /\ wdWake' = [w \in Watchdogs |-> WdNextWake(now)]
    /\ UNCHANGED wdAwait
    /\ UNCHANGED <<now, aggVars, rcVars, extVars, enable_full_refresh, wdInvoked,
                   wdCreated, wdSeen, wdCount, deaths, monitorLeft, stopPc, stopIdx,
                   stopIds, stopCalls, afterFirst, oi_client, client_closed>>

\* _run_binance: the kline stream task feeds each kline to agg.ingest.
RunBinance ==
    /\ task["_task"] = "running"
    /\ Ingest("kline", MaxWdEmits)

\* _run_binance_ticker: the ticker stream task feeds agg.update_ticker.
RunBinanceTicker(ts_ms) ==
    /\ task["_task_bin_ticker"] = "running"
    /\ UpdateTicker("ticker", ts_ms, MaxWdEmits)

\* A task terminates on its own, with an exception or cleanly.
TaskDies(s, how) ==
    /\ task[s] = "running"
    /\ how \in DieModes(s)
    /\ Emitter(s) # "none" => emitPc[Emitter(s)] = "idle"
    /\ deaths < MaxDeaths
    /\ deaths' = deaths + 1
    /\ task' = [task EXCEPT ![s] = how]
    /\ UNCHANGED <<now, aggVars, rcVars, extVars, enable_full_refresh, startPc, created,
                   old, wdPc, wdAwait, wdWake, wdInvoked, wdCreated, wdSeen, wdCount,
                   monitorLeft, stopPc, stopIdx, stopIds, stopCalls, afterFirst, oi_client,
                   client_closed>>

\* A task with a pending cancellation gets CancelledError at its await and
\* terminates; an emit it was in the middle of is abandoned before fan-out.
\* (The full-refresh loop inside a _restart_* call is at "await self._task"
\* within "except asyncio.CancelledError: pass": see RefreshRestartDone.)
TaskCancelled(s) ==
    /\ task[s] = "cancelling"
    /\ ~(s = "_task_full_refresh" /\ frPc = "restarting")
    /\ task' = [task EXCEPT ![s] = "cancelled"]
    /\ emitPc' = [t \in EmitTasks |-> IF t = Emitter(s) THEN "idle" ELSE emitPc[t]]
    /\ emitPayload' = [t \in EmitTasks |-> IF t = Emitter(s) THEN NoPayload ELSE emitPayload[t]]
    /\ UNCHANGED <<now, last_emit_ts, last_kline_ingest_ts, last_ticker_ingest_ts,
                   last_ingest_ts, subscribers, queues, built, lastDueTs,
                   lastFanout>>
    /\ UNCHANGED <<rcVars, extVars, enable_full_refresh, startPc, created, old, wdPc,
                   wdAwait, wdWake, wdInvoked, wdCreated, wdSeen, wdCount, deaths,
                   monitorLeft, stopPc, stopIdx, stopIds, stopCalls, afterFirst, oi_client,
                   client_closed>>

\* StreamWatchdog._run, one wake-up: either the stream is fresh and the
\* watchdog sleeps again, or it calls restart_cb, which cancels the slot's
\* task and awaits it (_restart_binance / _restart_binance_ticker).  Awaiting
\* a task that is already done does not suspend: restart_cb then creates the
\* replacement in the same step.
WatchdogPoll(w) ==
    /\ wdPc[w] = "sleeping"
    /\ now >= wdWake[w]
    /\ LET last == WdLast(w)
           s == WdSlot(w)
       IN  IF WdStale(last, now)
           THEN /\ wdInvoked' = [wdInvoked EXCEPT ![w] = @ + 1]
                /\ wdSeen' = [wdSeen EXCEPT ![w] = last]
                /\ wdCount' = [wdCount EXCEPT ![w] = IF wdSeen[w] = last THEN @ + 1 ELSE 1]
                /\ IF task[s] \in Live
                   THEN /\ task' = [task EXCEPT ![s] = CancelTask(@)]
                        /\ wdPc' = [wdPc EXCEPT ![w] = "restarting"]
                        /\ wdAwait' = [wdAwait EXCEPT ![w] = AwaitedOf(s)]
                        /\ UNCHANGED <<wdWake, created, old, wdCreated>>
                   ELSE /\ task' = [task EXCEPT ![s] = "running"]
                        /\ created' = [created EXCEPT ![s] = @ + 1]
                        /\ old' = [old EXCEPT ![s] = Dereferenced(@, task[s])]
                        /\ wdCreated' = [wdCreated EXCEPT ![w] = @ + 1]
                        /\ wdWake' = [wdWake EXCEPT ![w] = WdNextWake(now)]
                        /\ UNCHANGED <<wdPc, wdAwait>>
           ELSE /\ wdWake' = [wdWake EXCEPT ![w] = WdNextWake(now)]
                /\ UNCHANGED <<wdInvoked, wdSeen, wdCount, task, wdPc, wdAwait, created, old,
                               wdCreated>>
    /\ UNCHANGED <<now, aggVars, rcVars, extVars, enable_full_refresh, startPc, deaths,
                   monitorLeft, stopPc, stopIdx, stopIds, stopCalls, afterFirst, oi_client,
                   client_closed>>

\* restart_cb resumes once the awaited task is done (its CancelledError or
\* exception is swallowed), creates the replacement and returns; the
\* watchdog goes back to sleep.
WatchdogRestartDone(w) ==
    /\ wdPc[w] = "restarting"
    /\ TaskState(WdSlot(w), wdAwait[w]) \in Done \cup {"none"}
    /\ task' = [task EXCEPT ![WdSlot(w)] = "running"]
    /\ created' = [created EXCEPT ![WdSlot(w)] = @ + 1]
    /\ old' = [old EXCEPT ![WdSlot(w)] = Dereferenced(@, task[WdSlot(w)])]
    /\ wdAwait' = [wdAwait EXCEPT ![w] = 0]
    /\ wdCreated' = [wdCreated EXCEPT ![w] = @ + 1]
    /\ wdPc' = [wdPc EXCEPT ![w] = "sleeping"]
    /\ wdWake' = [wdWake EXCEPT ![w] = WdNextWake(now)]
    /\ UNCHANGED <<now, aggVars, rcVars, extVars, enable_full_refresh, startPc, wdInvoked,
                   wdSeen, wdCount, deaths, monitorLeft, stopPc, stopIdx, stopIds,
                   stopCalls, afterFirst, oi_client, client_closed>>

\* A task the supervisor no longer refers to, with a pending cancellation,
\* gets CancelledError at its await and terminates.
StrayCancelled(s) ==
    /\ \E i \in 1..Len(old[s]) : old[s][i] = "cancelling"
    /\ old' = [old EXCEPT ![s] = [i \in 1..Len(@) |->
                                    IF @[i] = "cancelling" THEN "cancelled" ELSE @[i]]]
    /\ UNCHANGED <<now, aggVars, rcVars, extVars, enable_full_refresh, startPc, task,
                   created, wdPc, wdAwait, wdWake, wdInvoked, wdCreated, wdSeen, wdCount,
                   deaths, monitorLeft, stopPc, stopIdx, stopIds, stopCalls, afterFirst,
                   oi_client, client_closed>>

\* _monitor_task_health, one pass after its 15 s sleep: each of the four
\* kline / ticker slots whose task is done gets a new task.
MonitorCheck ==
    /\ task["_task_health_monitor"] = "running"
    /\ task' = [s \in Slots |-> IF s \in StreamSlots /\ task[s] \in Done
                                THEN "running" ELSE task[s]]
    /\ monitorLeft' = {s \in Slots : task[s] \in Done /\ task'[s] \in Done}
    /\ created' = [s \in Slots |-> IF task'[s] # task[s] THEN created[s] + 1 ELSE created[s]]
    /\ old' = [s \in Slots |-> IF task'[s] # task[s] THEN Dereferenced(old[s], task[s]) ELSE old[s]]
    /\ UNCHANGED <<now, aggVars, rcVars, extVars, enable_full_refresh, startPc, wdPc,
                   wdAwait, wdWake, wdInvoked, wdCreated, wdSeen, wdCount, deaths, stopPc,
                   stopIdx, stopIds, stopCalls, afterFirst, oi_client, client_closed>>

\* stop(), up to its first await: every listed task that is not done is cancelled.
\* The application calls stop() outside start() (before it or after it returned).
StopBegin ==
    /\ startPc \in {"new", "started"}
    /\ stopPc \in {"idle", "returned", "raised"}
    /\ stopCalls < MaxStopCalls
    /\ stopCalls' = stopCalls + 1
    /\ task' = [s \in Slots |-> CancelTask(task[s])]
    /\ stopPc' = "awaiting"
    /\ stopIdx' = 1
    /\ stopIds' = created
    /\ UNCHANGED <<now, aggVars, rcVars, extVars, enable_full_refresh, startPc, created,
                   old, wdPc, wdAwait, wdWake, wdInvoked, wdCreated, wdSeen, wdCount,
                   deaths, monitorLeft, afterFirst, oi_client, client_closed>>

\* "try: await t / except Exception: pass": what awaiting a done task does.
\* A failed task's exception is an Exception and is swallowed; a cancelled
\* task raises CancelledError, a BaseException that "except Exception" lets through.
AwaitSwallowingException(st) == IF st = "cancelled" THEN "raise" ELSE "continue"

\* stop(), the loop awaiting each listed task in order.
StopAwait ==
    /\ stopPc = "awaiting"
    /\ LET st == TaskState(StopOrder[stopIdx], stopIds[StopOrder[stopIdx]])
       IN  /\ st \in Done \cup {"none"}
           /\ UNCHANGED stopIds
           /\ IF st # "none" /\ AwaitSwallowingException(st) = "raise"
              THEN /\ stopPc' = "raised"
                   /\ stopIdx' = 0
                   /\ afterFirst' = IF stopCalls = 1
                                    THEN [oi |-> oi_client, closed |-> client_closed,
                                          raised |-> TRUE]
                                    ELSE afterFirst
              ELSE /\ stopIdx' = IF stopIdx = Len(StopOrder) THEN 0 ELSE stopIdx + 1
                   /\ stopPc' = IF stopIdx = Len(StopOrder) THEN "closing" ELSE "awaiting"
                   /\ UNCHANGED afterFirst
    /\ UNCHANGED <<now, aggVars, rcVars, extVars, enable_full_refresh, startPc, task,
                   created, old, wdPc, wdAwait, wdWake, wdInvoked, wdCreated, wdSeen,
                   wdCount, deaths, monitorLeft, stopCalls, oi_client, client_closed>>

\* stop(), the end: oi_fetcher.stop() and self._client.aclose(), then return.
StopClose ==
    /\ stopPc = "closing"
    /\ oi_client' = "none"
    /\ client_closed' = TRUE
    /\ stopPc' = "returned"
    /\ afterFirst' = IF stopCalls = 1
                     THEN [oi |-> "none", closed |-> TRUE, raised |-> FALSE]
                     ELSE afterFirst
    /\ UNCHANGED <<now, aggVars, rcVars, extVars, enable_full_refresh, startPc, task,
                   created, old, wdPc, wdAwait, wdWake, wdInvoked, wdCreated, wdSeen,
                   wdCount, deaths, monitorLeft, stopIdx, stopIds, stopCalls>>

\* ------------------------------------------------------------------ backfill

\* the universe returned by self.binance.symbols(), in loop order
BfSymbols == <<"s1", "s2", "s3">>
\* where one symbol's backfill can fail: the 1m request (REST error or bad
\* payload before any row is ingested), a bad 1m row after some rows were
\* ingested, the 15m request or payload, the 4h request or payload
BfStages == {"none", "1m", "1m_row", "15m", "4h"}

BfInit ==
    /\ bfPc = "idle"
    /\ bfIdx = 0
    /\ bfIngested = {}
    /\ bfStored = {}
    /\ bfSeeded = {}
    /\ bfFail = [s \in Range(BfSymbols) |-> "none"]

\* "except Exception: continue" (1m) / "except Exception: pass" (HTF): the
\* loop goes on to the next symbol whatever happened to this one
BfNextIdxAbort(idx, fail) == IF fail = "none" THEN idx + 1 ELSE Len(BfSymbols) + 1
BfNextIdx(idx, fail) == idx + 1

\* start(): "await self._backfill_binance()"; symbols() is awaited outside
\* the per-symbol try, so its failure ends the backfill (start() logs it).
BackfillBegin(symbols_ok) ==
    /\ startPc = "backfill"
    /\ bfPc = "idle"
    /\ bfPc' = IF symbols_ok THEN "running" ELSE "raised"
    /\ bfIdx' = IF symbols_ok THEN 1 ELSE 0
    /\ UNCHANGED <<bfIngested, bfStored, bfSeeded, bfFail>>
    /\ UNCHANGED <<now, aggVars, supVars, rcVars, frVars, dataVars>>

\* One iteration of "for s in syms": the 1m rows are fetched and ingested,
\* then 15m and 4h rows are upserted and the HTF series seeded; fail is the
\* stage at which this symbol's backfill raises.
BackfillSymbol(fail) ==
    /\ startPc = "backfill"
    /\ bfPc = "running"
    /\ LET s == BfSymbols[bfIdx]
           next == BfNextIdx(bfIdx, fail)
       IN  /\ IF fail = "1m"
              THEN UNCHANGED aggVars /\ UNCHANGED now
              ELSE IngestAgg("refresh", MaxBackfillEmits)
           /\ bfIngested' = IF fail \in {"1m", "1m_row"} THEN bfIngested ELSE bfIngested \cup {s}
           /\ bfStored' = bfStored \cup
                 (IF fail \in {"none", "4h"} THEN {<<s, "15m">>} ELSE {}) \cup
                 (IF fail = "none" THEN {<<s, "4h">>} ELSE {})
           /\ bfSeeded' = IF fail = "none" THEN bfSeeded \cup {s} ELSE bfSeeded
           /\ bfFail' = [bfFail EXCEPT ![s] = fail]
           /\ bfIdx' = next
           /\ bfPc' = IF next > Len(BfSymbols) THEN "done" ELSE "running"
    /\ UNCHANGED <<supVars, rcVars, frVars, dataVars>>

\* --------------------------------------------------------- full refresh loop

\* the order of the four "await self._restart_*()" calls
RestartOrder == <<"_task", "_task_bin_ticker", "_task_bybit", "_task_bybit_ticker">>

FrInit ==
    /\ frPc = "init"
    /\ frIdx = 0
    /\ frAwait = 0
    /\ frWake = 0
    /\ frSleepStart = 0
    /\ frLog = <<>>
    /\ frRestarted = {}
    /\ frFailed = {}
    /\ frIters = 0

\* sleep_seconds_until_next_boundary(period_s, offset_s), as the wall-clock
\* time (ms) at which the sleep it returns ends:
\* "next_boundary = ((int(now) // period_s) + 1) * period_s", target = that
\* plus the offset, sleep max(0, target - now).
BoundaryTarget(now_ms, period_s, offset_s) ==
    Max(now_ms, ((((now_ms \div 1000) \div period_s) + 1) * period_s + offset_s) * 1000)

\* Top of "while True": the sleep until the next boundary is computed and begun.
RefreshSleep ==
    /\ task["_task_full_refresh"] = "running"
    /\ frPc \in {"init", "loop"}
    /\ frIters < MaxRefreshIters
    /\ frPc' = "sleeping"
    /\ frSleepStart' = now
    /\ frWake' = BoundaryTarget(now, REFRESH_PERIOD_S, FULL_REFRESH_OFFSET_SEC)
    /\ frLog' = <<>>
    /\ frRestarted' = {}
    /\ frFailed' = {}
    /\ UNCHANGED <<frIdx, frAwait, frIters>>
    /\ UNCHANGED <<now, aggVars, supVars, rcVars, bfVars, dataVars>>

\* The four _restart_* calls from call number i on, up to the first one
\* that suspends: a slot whose task is alive has it cancelled and awaited; a
\* slot without task, or whose task is done, gets its replacement at once
\* (awaiting a done task does not suspend).  st = [task, created, old,
\* restarted]; idx is the call that is left suspended (0: none).
RECURSIVE RestartChain(_, _)
RestartChain(st, i) ==
    IF i > Len(RestartOrder) THEN [st |-> st, idx |-> 0, await |-> 0]
    ELSE LET s == RestartOrder[i]
         IN  IF st.task[s] \in Live
             THEN [st |-> [st EXCEPT !.task[s] = CancelTask(@)], idx |-> i,
                   await |-> st.created[s]]
             ELSE RestartChain([task |-> [st.task EXCEPT ![s] = "running"],
                                created |-> [st.created EXCEPT ![s] = @ + 1],
                                old |-> [st.old EXCEPT ![s] = Dereferenced(@, st.task[s])],
                                restarted |-> st.restarted \cup {s}],
                               i + 1)

\* The sleep ends; _restart_binance begins: the kline task is cancelled and awaited.
RefreshWake ==
    /\ task["_task_full_refresh"] = "running"
    /\ frPc = "sleeping"
    /\ now >= frWake
    /\ LET r == RestartChain([task |-> task, created |-> created, old |-> old,
                              restarted |-> frRestarted], 1)
       IN  /\ task' = r.st.task
           /\ created' = r.st.created
           /\ old' = r.st.old
           /\ frRestarted' = r.st.restarted
           /\ frIdx' = r.idx
           /\ frAwait' = r.await
           /\ frPc' = IF r.idx = 0 THEN "backfill" ELSE "restarting"
           /\ frLog' = IF r.idx = 0 THEN Append(frLog, "restart") ELSE frLog
    /\ UNCHANGED <<frWake, frSleepStart, frFailed, frIters>>
    /\ UNCHANGED <<now, aggVars, rcVars, bfVars, dataVars, enable_full_refresh, startPc,
                   wdPc, wdAwait, wdWake, wdInvoked, wdCreated, wdSeen,
                   wdCount, deaths, monitorLeft, stopPc, stopIdx, stopIds, stopCalls,
                   afterFirst, oi_client, client_closed>>

\* The awaited task is done: _restart_* creates the replacement and returns;
\* the next _restart_* cancels its task, or the restarts are over.  The
\* CancelledError raised at "await self._task" is swallowed by _restart_*,
\* also when it is the loop's own cancellation: the loop then runs on.
RefreshRestartDone ==
    /\ task["_task_full_refresh"] \in {"running", "cancelling"}
    /\ frPc = "restarting"
    /\ LET s == RestartOrder[frIdx]
           r == RestartChain(
                    [task |-> [x \in Slots |->
                                  IF x = s \/ x = "_task_full_refresh" THEN "running"
                                  ELSE task[x]],
                     created |-> [created EXCEPT ![s] = @ + 1],
                     old |-> [old EXCEPT ![s] = Dereferenced(@, task[s])],
                     restarted |-> frRestarted \cup {s}],
                    frIdx + 1)
       IN  /\ TaskState(s, frAwait) \in Done \cup {"none"}
           /\ task' = r.st.task
           /\ created' = r.st.created
           /\ old' = r.st.old
           /\ frRestarted' = r.st.restarted
           /\ frIdx' = r.idx
           /\ frAwait' = r.await
           /\ frPc' = IF r.idx = 0 THEN "backfill" ELSE "restarting"
           /\ frLog' = IF r.idx = 0 THEN Append(frLog, "restart") ELSE frLog
    /\ UNCHANGED <<frWake, frSleepStart, frFailed, frIters>>
    /\ UNCHANGED <<now, aggVars, rcVars, bfVars, dataVars, enable_full_refresh, startPc,
                   wdPc, wdAwait, wdWake, wdInvoked, wdCreated, wdSeen, wdCount, deaths,
                   monitorLeft, stopPc, stopIdx, stopIds, stopCalls, afterFirst, oi_client,
                   client_closed>>

\* _backfill_binance inside the refresh: each backfilled 1m row goes through agg.ingest.
RefreshBackfillIngest ==
    /\ task["_task_full_refresh"] = "running"
    /\ frPc = "backfill"
    /\ Ingest("refresh", MaxRefreshEmits)

\* The backfills return, or raise and are logged ("Full refresh: ... backfill failed").
RefreshBackfillDone(ok) ==
    /\ task["_task_full_refresh"] = "running"
    /\ frPc = "backfill"
    /\ emitPc["refresh"] = "idle"
    /\ frPc' = "oi"
    /\ frLog' = Append(frLog, "backfill")
    /\ frFailed' = IF ok THEN frFailed ELSE frFailed \cup {"backfill"}
    /\ UNCHANGED <<frIdx, frAwait, frWake, frSleepStart, frRestarted, frIters>>
    /\ UNCHANGED <<now, aggVars, supVars, rcVars, bfVars, dataVars>>

\* The OI refetch: fetch_*_oi and update_open_interest (which does not
\* emit), or an exception that is logged.
RefreshOI(ok) ==
    /\ task["_task_full_refresh"] = "running"
    /\ frPc = "oi"
    /\ frPc' = "emit"
    /\ frLog' = Append(frLog, "oi")
    /\ frFailed' = IF ok THEN frFailed ELSE frFailed \cup {"oi"}
    /\ UNCHANGED <<frIdx, frAwait, frWake, frSleepStart, frRestarted, frIters>>
    /\ UNCHANGED <<now, aggVars, supVars, rcVars, bfVars, dataVars>>

\* "await self.agg.heartbeat_emit()": the snapshot is built; the fan-out
\* follows once process_metrics returned (EmitFanout).
RefreshEmit ==
    /\ task["_task_full_refresh"] = "running"
    /\ frPc = "emit"
    /\ emitPc["refresh"] = "idle"
    /\ EmitBuild("refresh", FALSE, MaxRefreshEmits)
    /\ frPc' = "emitting"
    /\ UNCHANGED <<frIdx, frAwait, frWake, frSleepStart, frLog, frRestarted, frFailed,
                   frIters>>
    /\ UNCHANGED <<now, last_kline_ingest_ts, last_ticker_ingest_ts, last_ingest_ts,
                   subscribers, queues, lastFanout>>
    /\ UNCHANGED <<supVars, rcVars, bfVars, dataVars>>

\* heartbeat_emit returned: the iteration is over, back to the top of the loop.
RefreshIterDone ==
    /\ task["_task_full_refresh"] = "running"
    /\ frPc = "emitting"
    /\ emitPc["refresh"] = "idle"
    /\ frPc' = "loop"
    /\ frLog' = Append(frLog, "emit")
    /\ frIters' = frIters + 1
    /\ UNCHANGED <<frIdx, frAwait, frWake, frSleepStart, frRestarted, frFailed>>
    /\ UNCHANGED <<now, aggVars, supVars, rcVars, bfVars, dataVars>>

\* ------------------------------------------------- candle store (ohlc table)

NoCandle == [exchange |-> "none"]

\* the PRIMARY KEY of the ohlc table
CandleKey(r) == <<r.exchange, r.symbol, r.interval, r.open_time>>

\* upsert_candle's statement: INSERT ... ON CONFLICT(key) DO UPDATE SET every
\* other column = excluded.column
UpsertCandleKeepOld(store, c) ==
    IF \E r \in store : CandleKey(r) = CandleKey(c) THEN store ELSE store \cup {c}
UpsertCandle(store, c) ==
    {r \in store : CandleKey(r) # CandleKey(c)} \cup {c}

\* whether the statement takes the INSERT path (a new rowid is handed out
\* and becomes the connection's last insert rowid) or the UPDATE path
UpsertInserts(store, c) == ~(\E r \in store : CandleKey(r) = CandleKey(c))

\* init_db(): empty tables on a fresh connection
DbInit ==
    /\ ohlc = {}
    /\ ohlc_rowids = 0
    /\ db_last_rowid = 0
    /\ lastUpsert = NoCandle
    /\ upserts = 0
    /\ dbReplaced = FALSE

\* the candles the store model is called with: two values on each of four keys
CandleInputs ==
    { [exchange |-> e, symbol |-> "s1", interval |-> iv, open_time |-> ot,
       close_time |-> ot + HTF_INTERVAL_MS[iv], open |-> 10, high |-> h, low |-> 9,
       close |-> h - 1, volume |-> h] :
         e \in {"binance", "bybit"}, iv \in {"15m"}, ot \in {0, 900000}, h \in {12, 14} }

\* upsert_candle(exchange, symbol, interval, open_time, ...), called directly
\* (the HTF backfill).
UpsertCandleCall(c) ==
    /\ upserts < MaxUpserts
    /\ upserts' = upserts + 1
    /\ lastUpsert' = c
    /\ dbReplaced' = (\E r \in ohlc : CandleKey(r) = CandleKey(c) /\ r # c)
    /\ ohlc' = UpsertCandle(ohlc, c)
    /\ ohlc_rowids' = IF UpsertInserts(ohlc, c) THEN ohlc_rowids + 1 ELSE ohlc_rowids
    /\ db_last_rowid' = IF UpsertInserts(ohlc, c) THEN ohlc_rowids + 1 ELSE db_last_rowid
    /\ UNCHANGED <<now, aggVars, supVars, rcVars, frVars, bfVars, anVars, rsVars, alVars,
                   calcVars>>

\* ------------------------------------- alert store (alerts and trade_plans)

\* The metrics a snapshot carries, reduced to the signal flags _emit_snapshot
\* and process_metrics look at.  ts is the wall clock at which the metric was
\* built (SymbolMetrics.ts: default_factory now).
SignalFlags ==
    { [cipher_buy |-> cb, cipher_sell |-> cs, swing_long_buy |-> sw,
       percent_r_os_reversal |-> wr] :
        cb \in BOOLEAN, cs \in BOOLEAN, sw \in BOOLEAN, wr \in BOOLEAN }
SignalKinds ==
    { f \in SignalFlags :
        Cardinality({x \in {"cb", "cs", "sw", "wr"} :
            \/ x = "cb" /\ f.cipher_buy
            \/ x = "cs" /\ f.cipher_sell
            \/ x = "sw" /\ f.swing_long_buy
            \/ x = "wr" /\ f.percent_r_os_reversal}) <= 1 }
Metric(symbol, ts, f) ==
    [exchange |-> "binance", symbol |-> symbol, ts |-> ts,
     cipher_buy |-> f.cipher_buy, cipher_sell |-> f.cipher_sell,
     swing_long_buy |-> f.swing_long_buy,
     percent_r_os_reversal |-> f.percent_r_os_reversal]

\* snapshots of one or two symbols (Aggregator._states is keyed by symbol)
SnapshotMetrics(ts) ==
    { <<Metric("s1", ts, f)>> : f \in SignalKinds } \cup
    { <<Metric("s1", ts, f), Metric("s2", ts, g)>> : f \in SignalKinds, g \in SignalKinds }

\* what raises while the loop body handles one metric
PersistFailures == {"none", "grade_alert", "get_recent", "insert_alert", "insert_trade_plan"}

\* per metric of a snapshot of n metrics, what raises: at most one of them fails
PersistFailureSeqs(n) ==
    { fs \in [1..n -> PersistFailures] : Cardinality({i \in 1..n : fs[i] # "none"}) <= 1 }

\* init_db(): empty tables, sequences at 0
AlInit ==
    /\ alerts = {}
    /\ alerts_seq = 0
    /\ trade_plans = {}
    /\ plans_seq = 0
    /\ emMetrics = <<>>
    /\ emFails = <<>>
    /\ emLog = <<>>
    /\ emAborted = FALSE

\* "side = 'BUY' if m.cipher_buy else 'SELL'"
Side(m) == IF m.cipher_buy THEN "BUY" ELSE "SELL"

\* the UNIQUE(exchange, symbol, signal, ts) key insert_alert is called with
AlertKey(m) == <<m.exchange, m.symbol, Side(m), m.ts>>

\* the loop's filter: "if not (m.cipher_buy is True or m.cipher_sell is True): continue"
PersistSelects(m) == m.cipher_buy \/ m.cipher_sell

\* insert_alert on the store db (the tables, their sequences and the shared
\* connection's last insert rowid).  INSERT OR IGNORE; then
\* "if cur.lastrowid: return int(cur.lastrowid)", else SELECT id by key.
\* cur.lastrowid after an ignored insert is the connection's last insert
\* rowid, whatever table it came from.
InsertAlert(db, key, graded) ==
    LET hit == {a \in db.alerts : a.key = key}
    IN  IF hit = {}
        THEN [db  |-> [db EXCEPT !.alerts = @ \cup {[id |-> db.alerts_seq + 1,
                                                     key |-> key, graded |-> graded]},
                                 !.alerts_seq = @ + 1,
                                 !.last_rowid = db.alerts_seq + 1],
              ret |-> db.alerts_seq + 1]
        ELSE [db  |-> db,
              ret |-> IF db.last_rowid # 0 THEN db.last_rowid
                      ELSE (CHOOSE a \in hit : TRUE).id]

\* insert_trade_plan: a plain INSERT (trade_plans has no unique key)
InsertTradePlan(db, alert_id, key) ==
    [db EXCEPT !.trade_plans = @ \cup {[id |-> db.plans_seq + 1,
                                        alert_id |-> alert_id, key |-> key]},
               !.plans_seq = @ + 1,
               !.last_rowid = db.plans_seq + 1]

\* the id of the alerts row holding key (0: none)
AlertIdOf(rows, key) ==
    IF \E a \in rows : a.key = key THEN (CHOOSE a \in rows : a.key = key).id ELSE 0

\* One pass of the body of "for m in snap.metrics" on st = [db, log, aborted].
\* An exception out of the body leaves the loop: the try/except encloses the
\* whole loop.  grade_alert has its own try/except inside the body.
PersistOne(st, m, fail) ==
    IF st.aborted \/ ~PersistSelects(m) THEN st
    ELSE IF fail \in {"get_recent", "insert_alert"} THEN [st EXCEPT !.aborted = TRUE]
    ELSE LET key == AlertKey(m)
             graded == fail # "grade_alert"
             r == InsertAlert(st.db, key, graded)
             entry == [key |-> key, existing |-> AlertIdOf(st.db.alerts, key),
                       ret |-> r.ret, graded |-> graded, plan |-> 0]
         IN  IF fail = "insert_trade_plan" /\ r.ret # 0
             THEN [db |-> r.db, log |-> Append(st.log, entry), aborted |-> TRUE]
             ELSE IF r.ret # 0
             THEN [db |-> InsertTradePlan(r.db, r.ret, key),
                   log |-> Append(st.log, [entry EXCEPT !.plan = r.ret]),
                   aborted |-> FALSE]
             ELSE [db |-> r.db, log |-> Append(st.log, entry), aborted |-> FALSE]

RECURSIVE PersistLoop(_, _, _, _)
PersistLoop(st, ms, fails, i) ==
    IF i > Len(ms) THEN st
    ELSE PersistLoop(PersistOne(st, ms[i], fails[i]), ms, fails, i + 1)

\* _emit_snapshot, called through heartbeat_emit by task t, with a snapshot
\* whose metrics are ms: build, stamp, then the persist block (TRADEPLAN_ENABLE
\* is on), up to the first suspension.
EmitPersist(t, cap, ms, fails) ==
    /\ emitPc[t] = "idle"
    /\ EmitBuild(t, FALSE, cap)
    /\ LET st0 == [db |-> [alerts |-> alerts, alerts_seq |-> alerts_seq,
                           trade_plans |-> trade_plans, plans_seq |-> plans_seq,
                           last_rowid |-> db_last_rowid],
                   log |-> <<>>, aborted |-> FALSE]
           st == PersistLoop(st0, ms, fails, 1)
       IN  /\ alerts' = st.db.alerts
           /\ alerts_seq' = st.db.alerts_seq
           /\ trade_plans' = st.db.trade_plans
           /\ plans_seq' = st.db.plans_seq
           /\ db_last_rowid' = st.db.last_rowid
           /\ emLog' = st.log
           /\ emAborted' = st.aborted
    /\ emMetrics' = ms
    /\ emFails' = fails
    /\ UNCHANGED <<now, last_kline_ingest_ts, last_ticker_ingest_ts, last_ingest_ts,
                   subscribers, queues, lastFanout>>
    /\ UNCHANGED <<ohlc, ohlc_rowids, lastUpsert, upserts, dbReplaced>>
    /\ UNCHANGED <<supVars, rcVars, frVars, bfVars, anVars, rsVars, calcVars>>

\* where _emit_snapshot goes on after its persist block: "except Exception:
\* pass" swallows what the block raised, and the emit proceeds to
\* process_metrics and the fan-out
AfterPersistFatal(aborted) == IF aborted THEN "raised" ELSE "dispatch"
AfterPersist(aborted) == "dispatch"

\* Aggregator.ingest(k), called by task t, when the snapshot it may emit
\* carries the metrics ms: the ingest stamps, then emit_if_due, then
\* _emit_snapshot's build, stamp and persist block
IngestPersist(t, cap, ms, fails) ==
    /\ emitPc[t] = "idle"
    /\ last_kline_ingest_ts' = now
    /\ last_ingest_ts' = Max(now, last_ticker_ingest_ts)
    /\ IF EmitIsDue(now, last_emit_ts)
       THEN LET st0 == [db |-> [alerts |-> alerts, alerts_seq |-> alerts_seq,
                                trade_plans |-> trade_plans, plans_seq |-> plans_seq,
                                last_rowid |-> db_last_rowid],
                        log |-> <<>>, aborted |-> FALSE]
                st == PersistLoop(st0, ms, fails, 1)
            IN  /\ built < cap
                /\ built' = built + 1
                /\ last_emit_ts' = now
                /\ emitPayload' = [emitPayload EXCEPT ![t] = [seq |-> built + 1, ts |-> now]]
                /\ lastDueTs' = now
                /\ alerts' = st.db.alerts
                /\ alerts_seq' = st.db.alerts_seq
                /\ trade_plans' = st.db.trade_plans
                /\ plans_seq' = st.db.plans_seq
                /\ db_last_rowid' = st.db.last_rowid
                /\ emLog' = st.log
                /\ emAborted' = st.aborted
                /\ emMetrics' = ms
                /\ emFails' = fails
                /\ emitPc' = [emitPc EXCEPT ![t] = AfterPersist(st.aborted)]
       ELSE UNCHANGED <<built, last_emit_ts, emitPayload, lastDueTs, emitPc, alVars,
                        db_last_rowid>>
    /\ UNCHANGED <<now, last_ticker_ingest_ts, subscribers, queues, lastFanout>>
    /\ UNCHANGED <<ohlc, ohlc_rowids, lastUpsert, upserts, dbReplaced>>
    /\ UNCHANGED <<supVars, rcVars, frVars, bfVars, anVars, rsVars, calcVars>>

\* ------------------------------------------------- SymbolState HTF resampler

Timeframes == <<"15m", "4h">>
NoBucket == [open_time |-> -1]

\* the 1m candles fed to the symbol: two closed shapes and an intrabar one
\* whose extremes lie outside both
KlineShapes == << [open |-> 10, high |-> 12, low |-> 9, close |-> 11, volume |-> 1],
                  [open |-> 11, high |-> 14, low |-> 8, close |-> 9, volume |-> 2] >>
IntrabarShape == [open |-> 11, high |-> 20, low |-> 1, close |-> 15, volume |-> 5]
\* first open_time fed: aligned to both timeframes, or to 15m only with the
\* 4h boundary fifteen candles later
RsStarts == {0, 225 * 60000}

Kline(shape, open_time, closed) ==
    [open_time |-> open_time, close_time |-> open_time + MINUTE_MS, open |-> shape.open,
     high |-> shape.high, low |-> shape.low, close |-> shape.close,
     volume |-> shape.volume, closed |-> closed]

RsInit ==
    /\ rsStart = -1
    /\ rsFed = 0
    /\ rsVaried = 0
    /\ rsIntrabar = 0
    /\ rsReplayed = 0
    /\ rsLastClosed = "none"
    /\ rsLen1m = 0
    /\ rsLastPrice = 0
    /\ rsCurrent = [tf \in Range(Timeframes) |-> NoBucket]
    /\ rsSeries = [tf \in Range(Timeframes) |-> <<>>]
    /\ rsExpect = <<>>

\* _resample_htf's guard: "if not getattr(k, 'closed', True): return"
HtfFeedsAlways(k) == TRUE
HtfFeeds(k) == k.closed

\* "bucket_open = k.open_time - (k.open_time % interval_ms)"
BucketOpen(open_time, interval_ms) == open_time - (open_time % interval_ms)

\* _resample_htf for one timeframe: the new 'current' bucket
ResampleCurrent(cur, k, interval_ms) ==
    LET bucket_open == BucketOpen(k.open_time, interval_ms)
    IN  IF cur = NoBucket \/ cur.open_time # bucket_open
        THEN [open_time |-> bucket_open, close_time |-> bucket_open + interval_ms,
              open |-> k.open, high |-> k.high, low |-> k.low, close |-> k.close,
              volume |-> k.volume]
        ELSE [cur EXCEPT !.high = Max(cur.high, k.high), !.low = Min(cur.low, k.low),
                         !.close = k.close, !.volume = cur.volume + k.volume]

\* _resample_htf for one timeframe: whether the previous bucket is finalized
\* (appended to the rolling series and upserted)
ResampleFinalizes(cur, k, interval_ms) ==
    cur # NoBucket /\ cur.open_time # BucketOpen(k.open_time, interval_ms)

\* the row upsert_candle is called with for a finalized bucket
BucketRow(tf, cur) ==
    [exchange |-> "binance", symbol |-> "s1", interval |-> tf, open_time |-> cur.open_time,
     close_time |-> cur.close_time, open |-> cur.open, high |-> cur.high,
     low |-> cur.low, close |-> cur.close, volume |-> cur.volume]

\* the upserts of one _resample_htf call, applied in the order of its loop
RECURSIVE ApplyUpserts(_, _)
ApplyUpserts(db, rows) ==
    IF rows = <<>> THEN db
    ELSE LET c == Head(rows)
             ins == UpsertInserts(db.ohlc, c)
         IN  ApplyUpserts([ohlc |-> UpsertCandle(db.ohlc, c),
                           rowids |-> IF ins THEN db.rowids + 1 ELSE db.rowids,
                           last |-> IF ins THEN db.rowids + 1 ELSE db.last],
                          Tail(rows))

\* SymbolState.update(k): the 1m series and last_price always, the HTF
\* resampler when the guard lets the candle through.
UpdateState(k) ==
    /\ rsLen1m' = Min(rsLen1m + 1, MAXLEN_1M)
    /\ rsLastPrice' = k.close
    /\ rsLastClosed' = IF k.closed THEN "closed" ELSE "intrabar"
    /\ IF HtfFeeds(k)
       THEN LET fin == [tf \in Range(Timeframes) |->
                           ResampleFinalizes(rsCurrent[tf], k, HTF_INTERVAL_MS[tf])]
                tfs == SelectSeq(Timeframes, LAMBDA tf : fin[tf])
                rows == [i \in 1..Len(tfs) |-> BucketRow(tfs[i], rsCurrent[tfs[i]])]
                db == ApplyUpserts([ohlc |-> ohlc, rowids |-> ohlc_rowids,
                                    last |-> db_last_rowid], rows)
            IN  /\ rsCurrent' = [tf \in Range(Timeframes) |->
                                    ResampleCurrent(rsCurrent[tf], k, HTF_INTERVAL_MS[tf])]
                /\ rsSeries' = [tf \in Range(Timeframes) |->
                                   IF fin[tf]
                                   THEN Append(rsSeries[tf],
                                               [close |-> rsCurrent[tf].close,
                                                high |-> rsCurrent[tf].high,
                                                low |-> rsCurrent[tf].low,
                                                vol |-> rsCurrent[tf].volume,
                                                bucket |-> rsCurrent[tf].open_time])
                                   ELSE rsSeries[tf]]
                /\ ohlc' = db.ohlc
                /\ ohlc_rowids' = db.rowids
                /\ db_last_rowid' = db.last
       ELSE UNCHANGED <<rsCurrent, rsSeries, ohlc, ohlc_rowids, db_last_rowid>>

\* what the closed candles fed so far amount to per 15m bucket: first open,
\* highest high, lowest low, last close, summed volume, and their number
ExpectAfter(expect, k) ==
    LET b == BucketOpen(k.open_time, HTF_INTERVAL_MS["15m"])
        n == Len(expect)
    IN  IF n > 0 /\ expect[n].open_time = b
        THEN [expect EXCEPT ![n] = [@ EXCEPT !.high = Max(@, k.high), !.low = Min(@, k.low),
                                             !.close = k.close,
                                             !.volume = @ + k.volume, !.n = @ + 1]]
        ELSE Append(expect, [open_time |-> b, open |-> k.open, high |-> k.high,
                             low |-> k.low, close |-> k.close, volume |-> k.volume, n |-> 1])

\* Aggregator.ingest -> SymbolState.update with the next closed 1m candle, in
\* time order.
UpdateClosed(start, i) ==
    /\ rsFed < MaxFeed
    /\ rsStart = -1 \/ rsStart = start
    /\ i = 1 \/ rsVaried < MaxVaried
    /\ LET k == Kline(KlineShapes[i], start + rsFed * MINUTE_MS, TRUE)
       IN  /\ UpdateState(k)
           /\ rsExpect' = ExpectAfter(rsExpect, k)
    /\ rsStart' = start
    /\ rsFed' = rsFed + 1
    /\ rsVaried' = IF i = 1 THEN rsVaried ELSE rsVaried + 1
    /\ UNCHANGED <<rsIntrabar, rsReplayed, lastUpsert, upserts, dbReplaced>>
    /\ UNCHANGED <<now, aggVars, supVars, rcVars, frVars, bfVars, anVars, alVars, calcVars>>

\* SymbolState.update with an intrabar (non-closed) update of the forming candle.
UpdateIntrabar ==
    /\ rsStart # -1
    /\ rsIntrabar < MaxIntrabar
    /\ UpdateState(Kline(IntrabarShape, rsStart + rsFed * MINUTE_MS, FALSE))
    /\ rsIntrabar' = rsIntrabar + 1
    /\ UNCHANGED <<rsStart, rsFed, rsVaried, rsReplayed, rsExpect, lastUpsert, upserts,
                   dbReplaced>>
    /\ UNCHANGED <<now, aggVars, supVars, rcVars, frVars, bfVars, anVars, alVars, calcVars>>

\* how far back a replayed candle lies: the latest closed candle, or the
\* candle sixteen minutes before the next one (an older 15m bucket)
ReplayBack == {1, 16}

\* Aggregator.ingest -> SymbolState.update with a closed 1m candle that was
\* fed before: the stream tasks run while start()'s backfill (or a full
\* refresh) ingests the latest 200 candles of the symbol, so a candle comes
\* from both.  (Replayed while every candle fed so far has the first shape.)
UpdateReplayed(back) ==
    /\ rsStart # -1
    /\ rsVaried = 0
    /\ rsReplayed < MaxReplays
    /\ back <= rsFed
    /\ UpdateState(Kline(KlineShapes[1], rsStart + (rsFed - back) * MINUTE_MS, TRUE))
    /\ rsReplayed' = rsReplayed + 1
    /\ UNCHANGED <<rsStart, rsFed, rsVaried, rsIntrabar, rsExpect, lastUpsert, upserts,
                   dbReplaced>>
    /\ UNCHANGED <<now, aggVars, supVars, rcVars, frVars, bfVars, anVars, alVars, calcVars>>

\* ------------------------------------------------ WaveTrend cipher signals

\* Optional[bool] values are written "True" / "False" / "None".  An
\* Optional[float] is None or a number: the empty tuple, or a 1-tuple.
PyBool(b) == IF b THEN "True" ELSE "False"
None == <<>>
Some(x) == <<x>>

\* wavetrend() needs len(closes) >= max(chlen + 2, avg + 2, malen + 2) bars
WT_MIN_BARS == Max(Max(WT_CHLEN + 2, WT_AVG + 2), WT_MALEN + 2)

\* The values wt1 = ema(ci, avg) takes on the closed bars of a timeframe.  The
\* EMA chain from prices to wt1 is not modelled: the wt1 series is the input.
WtGrid == {-60, -44, 52}

NoMetric ==
    [buy15 |-> "None", sell15 |-> "None", buy4h |-> "None", sell4h |-> "None",
     cipher_buy |-> "None", cipher_sell |-> "None", cipher_source_tf |-> "None"]

SigInit ==
    /\ wtLen = [tf \in Range(Timeframes) |-> 0]
    /\ wtTail = [tf \in Range(Timeframes) |-> <<>>]
    /\ wtMetric = NoMetric

\* the sum of the last n values of a sequence
RECURSIVE SumLast(_, _)
SumLast(s, n) == IF n = 0 THEN 0 ELSE s[Len(s) - n + 1] + SumLast(s, n - 1)

\* wavetrend(): (wt1_last, wt2_last, wt1_prev, wt2_prev), or four None.
\* wt2 = sma(wt1, malen): _sma_last(wt1_series, 3) and, for the previous bar,
\* _sma_last(wt1_series[:-1], 3).  All four values are returned in thirds
\* (multiplied by malen), which keeps the averages integral.
WaveTrend(len, tail) ==
    IF len < WT_MIN_BARS \/ Len(tail) < WT_MALEN + 1 THEN <<None, None, None, None>>
    ELSE LET prev == SubSeq(tail, 1, Len(tail) - 1)
         IN  << Some(WT_MALEN * Last(tail)), Some(SumLast(tail, WT_MALEN)),
                Some(WT_MALEN * Last(prev)), Some(SumLast(prev, WT_MALEN)) >>

\* cipher_b_signals(wt1, wt2, wt1_prev, wt2_prev, os_level, ob_level), on
\* values and levels in thirds
CipherBSignals(wt1, wt2, wt1_prev, wt2_prev, os_level, ob_level) ==
    IF wt1 = None \/ wt2 = None \/ wt1_prev = None \/ wt2_prev = None
    THEN <<"None", "None">>
    ELSE LET oversold == wt2[1] <= os_level
             overbought == wt2[1] >= ob_level
             prev_diff == wt1_prev[1] - wt2_prev[1]
             curr_diff == wt1[1] - wt2[1]
             cross_up == prev_diff < 0 /\ curr_diff >= 0
             cross_down == prev_diff > 0 /\ curr_diff <= 0
         IN  <<PyBool(oversold /\ cross_up), PyBool(overbought /\ cross_down)>>

\* compute_metrics' _signals_from_tuple: the configured levels, for either
\* timeframe
SignalsFromTupleDefaults(wt_tuple) ==
    CipherBSignals(wt_tuple[1], wt_tuple[2], wt_tuple[3], wt_tuple[4],
                   WT_MALEN * DEFAULT_OS_LEVEL, WT_MALEN * DEFAULT_OB_LEVEL)
SignalsFromTuple(wt_tuple) ==
    CipherBSignals(wt_tuple[1], wt_tuple[2], wt_tuple[3], wt_tuple[4],
                   WT_MALEN * CIPHERB_OS_LEVEL, WT_MALEN * CIPHERB_OB_LEVEL)

\* "True if (a is True or b is True) else (False if (a is False and b is
\* False) else None)"
Either(a, b) ==
    IF a = "True" \/ b = "True" THEN "True"
    ELSE IF a = "False" /\ b = "False" THEN "False" ELSE "None"

\* the cipher part of compute_metrics over the two HTF series
CipherMetric(len, tail) ==
    LET s15 == SignalsFromTuple(WaveTrend(len["15m"], tail["15m"]))
        s4h == SignalsFromTuple(WaveTrend(len["4h"], tail["4h"]))
        cipher_buy == Either(s15[1], s4h[1])
        cipher_sell == Either(s15[2], s4h[2])
    IN  [buy15 |-> s15[1], sell15 |-> s15[2], buy4h |-> s4h[1], sell4h |-> s4h[2],
         cipher_buy |-> cipher_buy, cipher_sell |-> cipher_sell,
         cipher_source_tf |->
            IF cipher_buy = "True"
            THEN (IF s15[1] = "True" THEN "15m" ELSE "4h")
            ELSE IF cipher_sell = "True"
            THEN (IF s15[2] = "True" THEN "15m" ELSE "4h")
            ELSE "None"]

\* the part of the series kept: the values wavetrend's result depends on
KeepTail(tail) ==
    IF Len(tail) > WT_MALEN + 1 THEN SubSeq(tail, Len(tail) - WT_MALEN, Len(tail)) ELSE tail

\* Aggregator.ingest(k) with a closed 1m candle that finalizes the bucket of
\* timeframe tf (the closed bar brings wt1 to v), the emit being due:
\* st.update(k), then build_snapshot's compute_metrics.
IngestClosingBar(tf, v) ==
    /\ wtLen' = [wtLen EXCEPT ![tf] = Min(@ + 1, WT_MIN_BARS)]
    /\ wtTail' = [wtTail EXCEPT ![tf] = KeepTail(Append(@, v))]
    /\ wtMetric' = CipherMetric(wtLen', wtTail')
    /\ UNCHANGED <<now, aggVars, supVars, rcVars, frVars, bfVars, anVars, rsVars, dbVars,
                   alVars,
                   grVars>>

\* ------------------------------------------------------------------ Grader

\* grade_alert reads these keys of the metrics dict.  Units: rvol_1m in
\* tenths, oi_change_5m in tenths of a percent, funding_rate in 1e-4,
\* bb_position and bb_width in hundredths, win_rate (the symbol's entry in
\* _symbol_win_rates, None when the symbol is not in the cache) in percent,
\* everything else in its own unit.  Scores are in halves of a point.
GradeFields ==
    {"oi_change_5m", "rvol_1m", "momentum_score", "vol_1m", "rsi_14", "funding_rate",
     "volatility_percentile", "rsi_1h", "rsi_4h", "macd_histogram_1h",
     "macd_histogram_4h", "win_rate", "mtf_bull_count", "mtf_bear_count",
     "bb_position", "bb_width", "atr", "last_price", "vwap_15m"}

\* a metrics dict with nothing but the price (last_price is not Optional)
BareMetrics == [f \in GradeFields |-> IF f = "last_price" THEN Some(1000) ELSE None]

NoGrade == [score |-> 0, grade |-> "none"]

GrInit ==
    /\ grSignal = "BUY"
    /\ grMetrics = BareMetrics
    /\ grResult = NoGrade
    /\ grPrev = NoGrade

\* _check_mtf_alignment: the checks that pass.  A missing value is no check.
MtfPassed(m, signal) ==
    { c \in {"rsi_1h", "rsi_4h", "macd_histogram_1h", "macd_histogram_4h"} :
        /\ m[c] # None
        /\ \/ c = "rsi_1h" /\ (IF signal = "BUY" THEN m[c][1] < 70 ELSE m[c][1] > 30)
           \/ c = "rsi_4h" /\ (IF signal = "BUY" THEN m[c][1] < 75 ELSE m[c][1] > 25)
           \/ c = "macd_histogram_1h" /\ (IF signal = "BUY" THEN m[c][1] > 0 ELSE m[c][1] < 0)
           \/ c = "macd_histogram_4h" /\ (IF signal = "BUY" THEN m[c][1] > 0 ELSE m[c][1] < 0) }

\* "is_aligned = aligned_count >= 3"
CheckMtfAlignment(m, signal) == Cardinality(MtfPassed(m, signal)) >= 3

\* open interest alignment
OiScore(m, signal) ==
    LET oi == m["oi_change_5m"]
    IN  IF oi = None THEN 0
        ELSE IF signal = "BUY"
        THEN (IF oi[1] > 5 THEN 4 ELSE IF oi[1] > 0 THEN 2 ELSE IF oi[1] < -5 THEN -4 ELSE 0)
        ELSE (IF oi[1] < -5 THEN 4 ELSE IF oi[1] < 0 THEN 2 ELSE IF oi[1] > 5 THEN -4 ELSE 0)

\* relative volume: >= 2.0: +2, >= 1.5: +1, < 0.5: -2, < 0.8: -1
RvolScoreSwapped(rvol) ==
    IF rvol = None THEN 0
    ELSE IF rvol[1] >= 20 THEN 2
    ELSE IF rvol[1] >= 15 THEN 4
    ELSE IF rvol[1] < 5 THEN -4
    ELSE IF rvol[1] < 8 THEN -2 ELSE 0
RvolScore(rvol) ==
    IF rvol = None THEN 0
    ELSE IF rvol[1] >= 20 THEN 4
    ELSE IF rvol[1] >= 15 THEN 2
    ELSE IF rvol[1] < 5 THEN -4
    ELSE IF rvol[1] < 8 THEN -2 ELSE 0

\* momentum alignment
MomentumScore(m, signal) ==
    LET mom == m["momentum_score"]
    IN  IF mom = None THEN 0
        ELSE IF signal = "BUY"
        THEN (IF mom[1] > 30 THEN 3 ELSE IF mom[1] > 0 THEN 1 ELSE IF mom[1] < -30 THEN -3 ELSE 0)
        ELSE (IF mom[1] < -30 THEN 3 ELSE IF mom[1] < 0 THEN 1 ELSE IF mom[1] > 30 THEN -3 ELSE 0)

\* liquidity
VolumeScore(m) ==
    LET v == m["vol_1m"]
    IN  IF v = None THEN 0
        ELSE IF v[1] <= 0 THEN 0
        ELSE IF v[1] < 10000 THEN -2
        ELSE IF v[1] > 100000 THEN 1 ELSE 0

\* 15m RSI extreme
RsiScore(m, signal) ==
    LET r == m["rsi_14"]
    IN  IF r = None THEN 0
        ELSE IF signal = "BUY"
        THEN (IF r[1] < 30 THEN 3 ELSE IF r[1] > 75 THEN -3 ELSE 0)
        ELSE (IF r[1] > 70 THEN 3 ELSE IF r[1] < 25 THEN -3 ELSE 0)

\* funding rate sentiment (0.0005 is 5, 0.001 is 10)
FundingScore(m, signal) ==
    LET f == m["funding_rate"]
    IN  IF f = None THEN 0
        ELSE IF signal = "BUY"
        THEN (IF f[1] < -5 THEN 2 ELSE IF f[1] > 10 THEN -2 ELSE 0)
        ELSE (IF f[1] > 5 THEN 2 ELSE IF f[1] < -10 THEN -2 ELSE 0)

\* volatility context
VolatilityScore(m) ==
    LET p == m["volatility_percentile"]
    IN  IF p = None THEN 0 ELSE IF p[1] > 90 THEN 0 ELSE IF p[1] < 20 THEN 1 ELSE 0

\* historical symbol performance
WinRateScore(m) ==
    LET w == m["win_rate"]
    IN  IF w = None THEN 0 ELSE IF w[1] < 35 THEN -4 ELSE IF w[1] > 55 THEN 2 ELSE 0

\* "metrics.get('mtf_bull_count', 0) or 0"
OrZero(x) == IF x = None THEN 0 ELSE x[1]

\* MTF bull / bear count
MtfCountScore(m, signal) ==
    LET mtf_bull == OrZero(m["mtf_bull_count"])
        mtf_bear == OrZero(m["mtf_bear_count"])
    IN  IF signal = "BUY" /\ mtf_bull >= 4 THEN 2
        ELSE IF signal = "SELL" /\ mtf_bear >= 4 THEN 2
        ELSE IF signal = "BUY" /\ mtf_bear >= 4 THEN -2
        ELSE IF signal = "SELL" /\ mtf_bull >= 4 THEN -2 ELSE 0

\* Bollinger position and squeeze
BollingerScore(m, signal) ==
    LET pos == m["bb_position"]
        width == m["bb_width"]
    IN  (IF pos = None THEN 0
         ELSE IF signal = "BUY"
         THEN (IF pos[1] < 15 THEN 3 ELSE IF pos[1] > 90 THEN -2 ELSE 0)
         ELSE (IF pos[1] > 85 THEN 3 ELSE IF pos[1] < 10 THEN -2 ELSE 0))
        + (IF width = None THEN 0 ELSE IF width[1] < 3 THEN 1 ELSE 0)

\* ATR risk filter: atr_pct = atr / last_price * 100; > 8: -1, < 1: +0.5
AtrScore(m) ==
    LET atr == m["atr"]
        last_price == m["last_price"]
    IN  IF atr # None /\ last_price # None /\ last_price[1] > 0
        THEN (IF atr[1] * 100 > 8 * last_price[1] THEN -2
              ELSE IF atr[1] * 100 < last_price[1] THEN 1 ELSE 0)
        ELSE 0

\* VWAP alignment: vwap_diff_pct = (last_price - vwap) / vwap * 100 if vwap > 0 else 0
VwapScore(m, signal) ==
    LET vwap == m["vwap_15m"]
        last_price == m["last_price"]
    IN  IF vwap # None /\ last_price # None /\ vwap[1] > 0
        THEN (IF signal = "BUY"
              THEN (IF (last_price[1] - vwap[1]) * 100 < -vwap[1] THEN 1 ELSE 0)
              ELSE (IF (last_price[1] - vwap[1]) * 100 > vwap[1] THEN 1 ELSE 0))
        ELSE 0

\* the grade mapping: "if score >= 6 and mtf_aligned: 'A' elif score >= 3: 'B'
\* else 'C'"
GradeOfScoreOnly(score, mtf_aligned) ==
    IF score >= 12 THEN "A" ELSE IF score >= 6 THEN "B" ELSE "C"
GradeOf(score, mtf_aligned) ==
    IF score >= 12 /\ mtf_aligned THEN "A" ELSE IF score >= 6 THEN "B" ELSE "C"

\* grade_alert(metrics, signal): (setup_score, setup_grade)
GradeAlert(m, signal) ==
    LET mtf_aligned == CheckMtfAlignment(m, signal)
        score == 4 + OiScore(m, signal) + RvolScore(m["rvol_1m"])
                   + MomentumScore(m, signal) + VolumeScore(m) + RsiScore(m, signal)
                   + FundingScore(m, signal) + VolatilityScore(m)
                   + (IF mtf_aligned THEN 4 ELSE 0)
                   + WinRateScore(m) + MtfCountScore(m, signal)
                   + BollingerScore(m, signal) + AtrScore(m) + VwapScore(m, signal)
    IN  [score |-> score, grade |-> GradeOf(score, mtf_aligned)]

\* the metric values the grader is called with when grades are studied
GradeValues ==
    [f \in {"rvol_1m", "rsi_1h", "rsi_4h", "macd_histogram_1h", "macd_histogram_4h",
            "oi_change_5m", "momentum_score", "rsi_14", "win_rate", "vol_1m",
            "bb_position"} |->
        CASE f = "rvol_1m" -> {None, Some(20)}
          [] f = "rsi_1h" -> {None, Some(50), Some(80)}
          [] f = "rsi_4h" -> {None, Some(50)}
          [] f = "macd_histogram_1h" -> {None, Some(1), Some(-1)}
          [] f = "macd_histogram_4h" -> {None, Some(1)}
          [] f = "oi_change_5m" -> {None, Some(6), Some(-6)}
          [] f = "momentum_score" -> {None, Some(40)}
          [] f = "rsi_14" -> {None, Some(20)}
          [] f = "win_rate" -> {None, Some(30)}
          [] f = "vol_1m" -> {None, Some(5000)}
          [] f = "bb_position" -> {None, Some(10)}]

\* the metric values the grader is called with when RVOL is studied
RvolValues ==
    [f \in {"rvol_1m", "rsi_1h", "macd_histogram_1h", "macd_histogram_4h",
            "funding_rate", "volatility_percentile", "mtf_bull_count",
            "mtf_bear_count", "bb_width", "atr", "vwap_15m"} |->
        CASE f = "rvol_1m" -> {None, Some(4), Some(7), Some(10)}
          [] f = "rsi_1h" -> {None, Some(50)}
          [] f = "macd_histogram_1h" -> {None, Some(1)}
          [] f = "macd_histogram_4h" -> {None, Some(1)}
          [] f = "funding_rate" -> {None, Some(-6)}
          [] f = "volatility_percentile" -> {None, Some(10)}
          [] f = "mtf_bull_count" -> {None, Some(4)}
          [] f = "mtf_bear_count" -> {None, Some(4)}
          [] f = "bb_width" -> {None, Some(2)}
          [] f = "atr" -> {None, Some(5), Some(90)}
          [] f = "vwap_15m" -> {None, Some(1020)}]

\* the values of the RVOL sweep, in tenths: 1.0 to 2.5
RvolSteps == {10, 15, 20, 25}

\* grade_alert called for signal on a metrics dict that differs from the one
\* graded before in the value v of field f
GradeNext(signal, f, v) ==
    /\ grSignal' = signal
    /\ grMetrics' = [grMetrics EXCEPT ![f] = v]
    /\ grResult' = GradeAlert(grMetrics', signal)
    /\ grPrev' = NoGrade
    /\ UNCHANGED <<now, aggVars, supVars, rcVars, frVars, bfVars, anVars, rsVars, dbVars,
                   alVars,
                   sigVars>>

\* The keys of the metrics dict that compute_metrics gives a value: the
\* keyword arguments of its SymbolMetrics(...) call that grade_alert reads.
\* win_rate is not a key of the dict: it is the grader's own cache.
ComputedFields ==
    {"oi_change_5m", "rvol_1m", "momentum_score", "vol_1m", "rsi_14",
     "volatility_percentile", "mtf_bull_count", "mtf_bear_count", "atr", "last_price",
     "vwap_15m"}

\* "md = m.model_dump()" of a SymbolMetrics built by compute_metrics: a field
\* the constructor call does not pass has the model's default, None, and a
\* key the model does not have is missing (metrics.get gives None).
ModelDump(m) ==
    [f \in GradeFields |-> IF f \in ComputedFields \cup {"win_rate"} THEN m[f] ELSE None]

\* the values a live metric takes in a field when grades are studied
LiveValues(f) ==
    (IF f \in DOMAIN GradeValues THEN GradeValues[f] ELSE {})
        \cup (IF f \in DOMAIN RvolValues THEN RvolValues[f] ELSE {})

\* the fields varied on the live path
LiveFields ==
    {f \in ComputedFields \cup {"win_rate"} : LiveValues(f) # {}}

\* _emit_snapshot grading, for signal, a metric produced by compute_metrics
\* that differs from the one graded before in the value v of field f
GradeLive(signal, f, v) ==
    /\ grSignal' = signal
    /\ grMetrics' = ModelDump([grMetrics EXCEPT ![f] = v])
    /\ grResult' = GradeAlert(grMetrics', signal)
    /\ grPrev' = NoGrade
    /\ UNCHANGED <<now, aggVars, supVars, rcVars, frVars, bfVars, anVars, rsVars, dbVars,
                   alVars, sigVars>>

\* grade_alert called again for the same signal on the same metrics but for a
\* higher rvol_1m, within 1.0 .. 2.5
RaiseRvol(v) ==
    /\ grResult # NoGrade
    /\ grMetrics["rvol_1m"] # None
    /\ grMetrics["rvol_1m"][1] \in RvolSteps
    /\ v > grMetrics["rvol_1m"][1]
    /\ grMetrics' = [grMetrics EXCEPT !["rvol_1m"] = Some(v)]
    /\ grResult' = GradeAlert(grMetrics', grSignal)
    /\ grPrev' = grResult
    /\ UNCHANGED grSignal
    /\ UNCHANGED <<now, aggVars, supVars, rcVars, frVars, bfVars, anVars, rsVars, dbVars,
                   alVars,
                   sigVars>>

\* ------------------------------------------------------------- trade plans

\* TRADEPLAN_TP_R_MULTS = (1.5, 2.5, 4.0), in halves; TRADEPLAN_ATR_MULT = 2.5
\* is ATR_MULT_HALVES.  Arguments are whole prices; the plan's prices and its
\* risk are returned in quarters, which keeps every product integral.
TP_R_MULTS == <<3, 5, 8>>

NoPlan == [raised |-> FALSE, side |-> "none"]

PlanInit ==
    /\ tpArgs = [side |-> "none"]
    /\ tpPlan = NoPlan

\* "stop = min(candidates) if candidates else (atr_sl if atr_sl is not None
\* else entry_price)" for BUY, max for SELL; candidates is the set of the
\* non-null values among the side's swing and atr_sl
PlanStopNearest(side, candidates, entry) ==
    IF candidates = {} THEN entry
    ELSE IF side = "BUY"
    THEN CHOOSE c \in candidates : \A d \in candidates : c >= d
    ELSE CHOOSE c \in candidates : \A d \in candidates : c <= d
PlanStop(side, candidates, entry) ==
    IF candidates = {} THEN entry
    ELSE IF side = "BUY"
    THEN CHOOSE c \in candidates : \A d \in candidates : c <= d
    ELSE CHOOSE c \in candidates : \A d \in candidates : c >= d

\* build_trade_plan(side, entry_price, atr, swing_high_15m, swing_low_15m)
BuildTradePlan(side, entry_price, atr, swing_high_15m, swing_low_15m) ==
    IF side \notin {"BUY", "SELL"} THEN [raised |-> TRUE, side |-> side]
    ELSE
    LET E == 4 * entry_price
        atr_sl == IF atr = None THEN None
                  ELSE IF side = "BUY" THEN Some(E - 2 * ATR_MULT_HALVES * atr[1])
                  ELSE Some(E + 2 * ATR_MULT_HALVES * atr[1])
        swing == IF side = "BUY" THEN swing_low_15m ELSE swing_high_15m
        candidates == (IF swing = None THEN {} ELSE {4 * swing[1]})
                      \cup (IF atr_sl = None THEN {} ELSE {atr_sl[1]})
        stop == PlanStop(side, candidates, E)
        risk == IF E >= stop THEN E - stop ELSE stop - E
        sign == IF side = "BUY" THEN 1 ELSE -1
        tp(i) == IF risk = 0 THEN None ELSE Some(E + sign * ((TP_R_MULTS[i] * risk) \div 2))
    IN  [raised |-> FALSE, side |-> side, entry_price |-> E, stop_loss |-> stop,
         tp1 |-> tp(1), tp2 |-> tp(2), tp3 |-> tp(3), risk_per_unit |-> risk,
         atr_sl |-> atr_sl, swing_ref |-> swing]

\* the arguments build_trade_plan is called with: a side (one of them
\* invalid), an entry, an ATR or None, and swings or None on either side of
\* the entry
PlanArgs ==
    [side : {"BUY", "SELL", "HOLD"}, entry_price : {100, 101},
     atr : {None, Some(0), Some(2)},
     swing_high_15m : {None, Some(98), Some(100), Some(106)},
     swing_low_15m : {None, Some(94), Some(100), Some(102)}]

BuildTradePlanCall(a) ==
    /\ tpArgs' = a
    /\ tpPlan' = BuildTradePlan(a.side, a.entry_price, a.atr, a.swing_high_15m,
                                a.swing_low_15m)
    /\ UNCHANGED <<coreVars, stVars, rbVars, btVars, runVars, ntVars>>

\* --------------------------------------------------------------- backtester

\* _simulate_one and the caller's "if not forward" branch.  Prices are in
\* twentieths (5 * the plan's quarters).  mae_r and mfe_r are held as their
\* numerators: the code divides every term by the same risk, so
\* mae_r = mae / risk and mfe_r = mfe / risk.  r is -1, 0 or j+1.
TpNames == <<"TP1", "TP2", "TP3">>

BtResult(resolved, r, mae, mfe, bars) ==
    [resolved |-> resolved, r |-> r, mae |-> mae, mfe |-> mfe, bars |-> bars]

\* "tp_levels = [tp for tp in tps if tp is not None]"
TpLevelsReversed(tps) ==
    LET kept == SelectSeq(tps, LAMBDA t : t # None)
    IN  [j \in 1..Len(kept) |-> kept[Len(kept) + 1 - j][1]]
TpLevels(tps) ==
    LET kept == SelectSeq(tps, LAMBDA t : t # None)
    IN  [j \in 1..Len(kept) |-> kept[j][1]]

\* the "for i, row in enumerate(candles)" loop from row i on (1-based)
RECURSIVE SimulateLoop(_, _, _, _, _, _, _, _)
SimulateLoopTpFirst(side, entry, stop, tp_levels, candles, i, mae, mfe) ==
    IF i > Len(candles) THEN BtResult("NONE", 0, mae, mfe, Len(candles))
    ELSE
    LET h == candles[i].h
        l == candles[i].l
        mae2 == IF side = "BUY" THEN Max(mae, entry - l) ELSE Max(mae, h - entry)
        mfe2 == IF side = "BUY" THEN Max(mfe, h - entry) ELSE Max(mfe, entry - l)
        stopped == IF side = "BUY" THEN l <= stop ELSE h >= stop
        reached == {j \in 1..Len(tp_levels) :
                       IF side = "BUY" THEN h >= tp_levels[j] ELSE l <= tp_levels[j]}
    IN  IF reached # {}
        THEN LET j == CHOOSE x \in reached : \A y \in reached : x <= y
             IN  BtResult(TpNames[j], j, mae2, mfe2, i)
        ELSE IF stopped THEN BtResult("SL", -1, mae2, mfe2, i)
        ELSE SimulateLoop(side, entry, stop, tp_levels, candles, i + 1, mae2, mfe2)
SimulateLoop(side, entry, stop, tp_levels, candles, i, mae, mfe) ==
    IF i > Len(candles) THEN BtResult("NONE", 0, mae, mfe, Len(candles))
    ELSE
    LET h == candles[i].h
        l == candles[i].l
        mae2 == IF side = "BUY" THEN Max(mae, entry - l) ELSE Max(mae, h - entry)
        mfe2 == IF side = "BUY" THEN Max(mfe, h - entry) ELSE Max(mfe, entry - l)
        stopped == IF side = "BUY" THEN l <= stop ELSE h >= stop
        reached == {j \in 1..Len(tp_levels) :
                       IF side = "BUY" THEN h >= tp_levels[j] ELSE l <= tp_levels[j]}
    IN  IF stopped THEN BtResult("SL", -1, mae2, mfe2, i)
        ELSE IF reached # {}
        THEN LET j == CHOOSE x \in reached : \A y \in reached : x <= y
             IN  BtResult(TpNames[j], j, mae2, mfe2, i)
        ELSE SimulateLoop(side, entry, stop, tp_levels, candles, i + 1, mae2, mfe2)

\* _simulate_one(side, entry, stop, tps, candles); "best_tp = max(tp_levels)
\* if side == 'BUY' else min(tp_levels) if tp_levels else None" raises
\* ValueError for a BUY without any target
SimulateOneSell(side, entry, stop, tps, candles) ==
    LET risk == IF entry >= stop THEN entry - stop ELSE stop - entry
        tp_levels == TpLevels(tps)
    IN  IF risk <= 0 THEN BtResult("NONE", 0, 0, 0, 0)
        ELSE SimulateLoop("SELL", entry, stop, tp_levels, candles, 1, 0, 0)
SimulateOne(side, entry, stop, tps, candles) ==
    LET risk == IF entry >= stop THEN entry - stop ELSE stop - entry
        tp_levels == TpLevels(tps)
    IN  IF risk <= 0 THEN BtResult("NONE", 0, 0, 0, 0)
        ELSE IF side = "BUY" /\ tp_levels = <<>>
        THEN BtResult("ValueError", 0, 0, 0, 0)
        ELSE SimulateLoop(side, entry, stop, tp_levels, candles, 1, 0, 0)

\* run_analysis_backtest, per selected row: "if not forward: res =
\* BacktestTradeResult('NONE', 0.0, 0.0, 0.0, 0) else: res = _simulate_one(sig,
\* entry, stop, [tp1, tp2, tp3], forward)"
SimulateRow(p, forward) ==
    IF forward = <<>> THEN BtResult("NONE", 0, 0, 0, 0)
    ELSE SimulateOne(p.side, p.entry, p.stop, <<p.tp1, p.tp2, p.tp3>>, forward)

\* the trade_plans rows the aggregator stores are build_trade_plan's plans
\* for the alert's side
BtPlanArgs ==
    [side : {"BUY", "SELL"}, entry_price : {100}, atr : {None, Some(0)},
     swing_high_15m : {None, Some(98), Some(102)},
     swing_low_15m : {None, Some(98), Some(102)}]

Scale20(x) == IF x = None THEN None ELSE Some(5 * x[1])

PlanRow(a) ==
    LET plan == BuildTradePlan(a.side, a.entry_price, a.atr, a.swing_high_15m,
                               a.swing_low_15m)
    IN  [side |-> plan.side, entry |-> 5 * plan.entry_price, stop |-> 5 * plan.stop_loss,
         tp1 |-> Scale20(plan.tp1), tp2 |-> Scale20(plan.tp2), tp3 |-> Scale20(plan.tp3)]

\* 15m candles (high, low) in twentieths: 2000 is the entry 100
BtCandles ==
    {[h |-> 2068, l |-> 1980], [h |-> 2020, l |-> 1980], [h |-> 2120, l |-> 1940],
     [h |-> 2010, l |-> 2005], [h |-> 2030, l |-> 2012], [h |-> 2070, l |-> 2035],
     [h |-> 1995, l |-> 1990], [h |-> 1985, l |-> 1970], [h |-> 1950, l |-> 1930],
     [h |-> 2200, l |-> 2050]}

NoRow == [side |-> "none"]

BtInit ==
    /\ btPlan = NoRow
    /\ btForward = <<>>
    /\ btRes = BtResult("NONE", 0, 0, 0, 0)

\* a backtest of an alert whose forward candles are not stored yet
BacktestStart(a) ==
    /\ btPlan' = PlanRow(a)
    /\ btForward' = <<>>
    /\ btRes' = SimulateRow(btPlan', btForward')
    /\ UNCHANGED <<coreVars, stVars, rbVars, planVars, runVars, ntVars>>

\* the next 15m candle is stored and the backtest runs again over the
\* longer forward list (at most HORIZON_15M_BARS candles, here MaxForward)
BacktestBar(c) ==
    /\ btPlan # NoRow
    /\ Len(btForward) < MaxForward
    /\ btForward' = Append(btForward, c)
    /\ btRes' = SimulateRow(btPlan, btForward')
    /\ UNCHANGED <<coreVars, stVars, rbVars, planVars, btPlan, runVars, ntVars>>

\* ------------------------------------------------------- analysis backtest

\* run_analysis_backtest over the alerts and trade_plans tables of the alert
\* store.  Every stored alert lies inside the window and in the top-200
\* cohort, and carries a grade (the backfill of a null grade is not reached).
\* The plan stored for a metric is build_trade_plan at entry 100 with the
\* swings 98 and 102 and no ATR; the 15m candles after the alerts are
\* AnalysisForward.
AnalysisWindows == <<30, 90>>
StrategyVersions == <<"v3_enhanced_grading", "v4">>
AnalysisForward == <<[h |-> 2020, l |-> 1980], [h |-> 2068, l |-> 1980]>>

StoredPlan(side) ==
    PlanRow([side |-> side, entry_price |-> 100, atr |-> None,
             swing_high_15m |-> Some(102), swing_low_15m |-> Some(98)])

\* the values run_analysis_backtest upserts for one row of its join: the
\* alert's columns, the plan's prices, and the simulation of the alert's
\* signal on the plan's prices
TradeRow(a, p, window_days, version) ==
    LET plan == StoredPlan(p.key[3])
        res == SimulateRow([plan EXCEPT !.side = a.key[3]], AnalysisForward)
    IN  [alert_id |-> a.id, window_days |-> window_days, strategy_version |-> version,
         created_ts |-> a.key[4], symbol |-> a.key[2], signal |-> a.key[3],
         entry |-> plan.entry, stop |-> plan.stop, tp1 |-> plan.tp1,
         resolved |-> res.resolved, r_multiple |-> res.r, bars_to_resolve |-> res.bars]

\* "INSERT INTO backtest_trades ... ON CONFLICT(alert_id, window_days,
\* strategy_version) DO UPDATE SET ..."
TradeKey(r) == <<r.alert_id, r.window_days, r.strategy_version>>
UpsertTradeByAlert(table, row) ==
    {r \in table : <<r.alert_id, r.window_days>> # <<row.alert_id, row.window_days>>}
        \cup {row}
UpsertTrade(table, row) ==
    {r \in table : TradeKey(r) # TradeKey(row)} \cup {row}

\* the loop "for r in rows" over the join of alerts and trade_plans.  The
\* query orders by a.created_ts only; SQLite scans trade_plans in rowid order
\* and sorts stably, so the plans of one alert are handled in id order, and
\* rows of different alerts do not touch the same key.
RECURSIVE RunLoop(_, _, _, _, _, _)
RunLoop(table, als, plans, window_days, version, i) ==
    IF \A p \in plans : p.id < i THEN table
    ELSE LET hit == {p \in plans : p.id = i}
             joined == {<<a, p>> : a \in als, p \in hit}
             row == {x \in joined : x[2].alert_id = x[1].id}
         IN  IF row = {} THEN RunLoop(table, als, plans, window_days, version, i + 1)
             ELSE LET x == CHOOSE y \in row : TRUE
                  IN  RunLoop(UpsertTrade(table, TradeRow(x[1], x[2], window_days, version)),
                              als, plans, window_days, version, i + 1)

\* run_analysis_backtest(window_days, exchange='all')
RunAnalysisBacktest(table, window_days, version) ==
    RunLoop(table, alerts, trade_plans, window_days, version, 1)

\* compute_symbol_win_rates(window_days=30, min_trades): per symbol with at
\* least min_trades rows whose resolved is not NONE, wins / total, held as
\* the pair; rows of every window_days and strategy_version count
ComputeSymbolWinRates(table, min_trades) ==
    LET resolved(s) == {r \in table : r.symbol = s /\ r.resolved # "NONE"}
        syms == {s \in {r.symbol : r \in table} : Cardinality(resolved(s)) >= min_trades}
    IN  [s \in syms |->
            [wins |-> Cardinality({r \in resolved(s) :
                                      r.resolved \in {"WIN", "TP1", "TP2", "TP3"}}),
             total |-> Cardinality(resolved(s))]]

\* init_db() and the module globals at import
RunInit ==
    /\ backtest_trades = {}
    /\ strategyVersion = StrategyVersions[1]
    /\ symbol_win_rates = << >>
    /\ anLast = [kind |-> "none", before |-> {}, windows |-> {}, store |-> <<{}, {}>>]

\* one iteration of analysis_autorun_loop's "while True": "for w in
\* ANALYSIS_AUTORUN_WINDOWS: run_analysis_backtest(window_days=w, ...)"; the
\* calls are synchronous, nothing else runs in between
AutorunIteration ==
    /\ backtest_trades' =
          RunAnalysisBacktest(
              RunAnalysisBacktest(backtest_trades, AnalysisWindows[1], strategyVersion),
              AnalysisWindows[2], strategyVersion)
    /\ anLast' = [kind |-> "autorun", before |-> backtest_trades,
                  windows |-> Range(AnalysisWindows), store |-> <<alerts, trade_plans>>]
    /\ UNCHANGED <<coreVars, stVars, rbVars, planVars, btVars, ntVars, strategyVersion, symbol_win_rates>>

\* POST /meta/analysis/run: run_analysis_backtest(window_days), then
\* update_grader_symbol_rates(window_days=30): set_symbol_win_rates(
\* compute_symbol_win_rates(min_trades=5))
MetaAnalysisRun(window_days) ==
    /\ backtest_trades' = RunAnalysisBacktest(backtest_trades, window_days, strategyVersion)
    /\ symbol_win_rates' = ComputeSymbolWinRates(backtest_trades', MIN_TRADES)
    /\ anLast' = [kind |-> "endpoint", before |-> backtest_trades,
                  windows |-> {window_days}, store |-> <<alerts, trade_plans>>]
    /\ UNCHANGED <<coreVars, stVars, rbVars, planVars, btVars, ntVars, strategyVersion>>

\* the service is restarted on a build with another STRATEGY_VERSION: the
\* store file stays, the grader's module global starts empty again (the
\* aggregator's in-memory state is not followed across the restart)
Redeploy ==
    /\ strategyVersion = StrategyVersions[1]
    /\ \A t \in EmitTasks : emitPc[t] = "idle"
    /\ strategyVersion' = StrategyVersions[2]
    /\ symbol_win_rates' = << >>
    /\ anLast' = [kind |-> "redeploy", before |-> backtest_trades,
                  windows |-> {}, store |-> <<alerts, trade_plans>>]
    /\ UNCHANGED <<coreVars, stVars, rbVars, planVars, btVars, ntVars, backtest_trades>>

\* ------------------------------------------------------------------ alerter

\* process_metrics with ENABLE_ALERTS and ALERT_VOL_DUE on and ALERT_MIN_GRADE
\* 'A'.  The dicts are functions; d.get(key, 0) is Get0.
NotifyTypes == <<"cipher", "wrte", "swing_long", "vol_due">>

Get0(d, k) == IF k \in DOMAIN d THEN d[k] ELSE 0
Put(d, k, v) == [x \in DOMAIN d \cup {k} |-> IF x = k THEN v ELSE d[x]]

\* the metrics of a snapshot, reduced to what process_metrics reads
NotifyMetrics ==
    [symbol : {"s1"}, cipher_buy : BOOLEAN, percent_r_os_reversal : BOOLEAN,
     swing_long_buy : BOOLEAN, vol_due_15m : BOOLEAN,
     setup_grade : {"A", "B", "None"}, liquidity_top200 : BOOLEAN]

\* the alert types of m left after the grade filter: cipher and %R need a
\* grade of at least ALERT_MIN_GRADE, swing-long and volatility-due do not
WantedTypes(m) ==
    LET graded == m.setup_grade = "A"
    IN  {tp \in Range(NotifyTypes) :
            \/ tp = "cipher" /\ m.cipher_buy /\ graded
            \/ tp = "wrte" /\ m.percent_r_os_reversal /\ graded
            \/ tp = "swing_long" /\ m.swing_long_buy
            \/ tp = "vol_due" /\ m.vol_due_15m}

\* "cooldown = ALERT_COOLDOWN_TOP_MS if (m.liquidity_top200 is True) else
\* ALERT_COOLDOWN_SMALL_MS"
Cooldown(top200) == IF top200 THEN ALERT_COOLDOWN_TOP_MS ELSE ALERT_COOLDOWN_SMALL_MS

\* the four "if is_<type>: if _should_alert(sym_key, now_ms): ..." blocks
\* from block i on, on st = [last_alert, last_symbol, sent]
RECURSIVE NotifyTypesFrom(_, _, _, _)
NotifyTypesFrom(st, m, now_ms, i) ==
    IF i > Len(NotifyTypes) THEN st
    ELSE LET tp == NotifyTypes[i]
             sym == <<"binance", m.symbol>>
             sym_key == <<sym, tp>>
         IN  IF tp \in WantedTypes(m)
                /\ ~(now_ms - Get0(st.last_alert, sym_key) < ALERT_DEDUP_MIN_MS)
             THEN NotifyTypesFrom(
                      [last_alert |-> Put(st.last_alert, sym_key, now_ms),
                       last_symbol |-> Put(st.last_symbol, sym, now_ms),
                       sent |-> st.sent \cup {[sym |-> sym, type |-> tp,
                                               top200 |-> m.liquidity_top200]}],
                      m, now_ms, i + 1)
             ELSE NotifyTypesFrom(st, m, now_ms, i + 1)

\* the body of "for m in metrics"
ProcessMetric(st, m, now_ms) ==
    IF WantedTypes(m) = {} THEN st
    ELSE IF now_ms - Get0(st.last_symbol, <<"binance", m.symbol>>)
                < Cooldown(m.liquidity_top200)
    THEN st
    ELSE NotifyTypesFrom(st, m, now_ms, 1)

RECURSIVE ProcessLoop(_, _, _, _)
ProcessLoop(st, ms, now_ms, i) ==
    IF i > Len(ms) THEN st
    ELSE ProcessLoop(ProcessMetric(st, ms[i], now_ms), ms, now_ms, i + 1)

NtInit ==
    /\ last_alert_ts = << >>
    /\ last_symbol_alert_ts = << >>
    /\ ntSent = {}
    /\ ntCallTs = 0
    /\ ntPrev = << >>

\* process_metrics(metrics), up to its "await asyncio.gather(*tasks)"
ProcessMetrics(ms) ==
    /\ LET st == ProcessLoop([last_alert |-> last_alert_ts,
                              last_symbol |-> last_symbol_alert_ts, sent |-> {}],
                             ms, now, 1)
       IN  /\ last_alert_ts' = st.last_alert
           /\ last_symbol_alert_ts' = st.last_symbol
           /\ ntSent' = st.sent
    /\ ntCallTs' = now
    /\ ntPrev' = [k \in DOMAIN ntPrev \cup {<<x.sym, x.type>> : x \in ntSent} |->
                     IF \E x \in ntSent : <<x.sym, x.type>> = k THEN ntCallTs
                     ELSE ntPrev[k]]
    /\ UNCHANGED <<coreVars, stVars, rbVars, planVars, btVars, runVars>>

\* ------------------------------------------------- recent candles (reads)

\* the tuple both functions return per row: (open_time, close_time, open,
\* high, low, close, volume)
RowData(r) == <<r.open_time, r.close_time, r.open, r.high, r.low, r.close, r.volume>>

\* rows in ascending open_time (open_time is unique within a symbol's rows of
\* one exchange and interval: the table's primary key)
RECURSIVE AscSeq(_)
AscSeq(S) ==
    IF S = {} THEN <<>>
    ELSE LET m == CHOOSE r \in S : \A x \in S : r.open_time <= x.open_time
         IN  <<m>> \o AscSeq(S \ {m})

Reverse(s) == [i \in 1..Len(s) |-> s[Len(s) + 1 - i]]

\* get_recent(exchange, symbol, interval, limit): "ORDER BY open_time DESC
\* LIMIT ?" for a positive limit, then rows.reverse()
GetRecent(store, exchange, symbol, interval, limit) ==
    LET rows == {r \in store : r.exchange = exchange /\ r.symbol = symbol
                                /\ r.interval = interval}
        desc == Reverse(AscSeq(rows))
        taken == SubSeq(desc, 1, Min(limit, Len(desc)))
        asc == Reverse(taken)
    IN  [i \in 1..Len(asc) |-> RowData(asc[i])]

\* get_recent_batch(exchange, symbols, interval, limit): ROW_NUMBER() OVER
\* (PARTITION BY symbol ORDER BY open_time DESC) as rn, "WHERE rn <= ?",
\* "ORDER BY symbol, open_time ASC", then grouped by symbol into a dict
GetRecentBatchOldest(store, exchange, symbols, interval, limit) ==
    IF symbols = <<>> THEN << >>
    ELSE
    LET rows == {r \in store : r.exchange = exchange /\ r.symbol \in Range(symbols)
                                /\ r.interval = interval}
        rn(r) == 1 + Cardinality({x \in rows : x.symbol = r.symbol
                                                /\ x.open_time < r.open_time})
        kept == {r \in rows : rn(r) <= limit}
    IN  [s \in {r.symbol : r \in kept} |->
            LET asc == AscSeq({r \in kept : r.symbol = s})
            IN  [i \in 1..Len(asc) |-> RowData(asc[i])]]
GetRecentBatch(store, exchange, symbols, interval, limit) ==
    IF symbols = <<>> THEN << >>
    ELSE
    LET rows == {r \in store : r.exchange = exchange /\ r.symbol \in Range(symbols)
                                /\ r.interval = interval}
        rn(r) == 1 + Cardinality({x \in rows : x.symbol = r.symbol
                                                /\ x.open_time > r.open_time})
        kept == {r \in rows : rn(r) <= limit}
    IN  [s \in {r.symbol : r \in kept} |->
            LET asc == AscSeq({r \in kept : r.symbol = s})
            IN  [i \in 1..Len(asc) |-> RowData(asc[i])]]

\* Aggregator.seed_htf_from_db(symbol), called by the backfill after each
\* symbol: the HTF series are emptied and reloaded from the store's latest
\* 300 rows, and the bucket in progress is dropped.
SeedHtfFromDb ==
    /\ rsStart # -1
    /\ rsReplayed < MaxReplays
    /\ rsReplayed' = rsReplayed + 1
    /\ rsSeries' = [tf \in Range(Timeframes) |->
                       LET rows == GetRecent(ohlc, "binance", "s1", tf, 300)
                       IN  [i \in 1..Len(rows) |->
                               [close |-> rows[i][6], high |-> rows[i][4],
                                low |-> rows[i][5], vol |-> rows[i][7],
                                bucket |-> rows[i][1]]]]
    /\ rsCurrent' = [tf \in Range(Timeframes) |-> NoBucket]
    /\ UNCHANGED <<rsStart, rsFed, rsVaried, rsIntrabar, rsLastClosed, rsLen1m,
                   rsLastPrice, rsExpect>>
    /\ UNCHANGED <<now, aggVars, supVars, rcVars, frVars, bfVars, anVars, alVars, calcVars,
                   dbVars>>

\* the candles stored before the reads: three symbols on binance, one row
\* of another exchange and one of another interval
RecentCandles ==
    { [exchange |-> k[1], symbol |-> k[2], interval |-> k[3], open_time |-> k[4],
       close_time |-> k[4] + HTF_INTERVAL_MS[k[3]], open |-> 10, high |-> 12, low |-> 9,
       close |-> 11, volume |-> 12] :
         k \in { <<"binance", "s1", "15m", 0>>, <<"binance", "s1", "15m", 900000>>,
                 <<"binance", "s1", "15m", 1800000>>, <<"binance", "s2", "15m", 0>>,
                 <<"binance", "s2", "15m", 900000>>, <<"binance", "s3", "15m", 0>>,
                 <<"bybit", "s1", "15m", 2700000>>, <<"binance", "s1", "4h", 0>> } }

\* the reads: symbol lists with a repeated symbol and with a symbol that has
\* no rows, both intervals, limits from 1 to MaxLimit (the callers pass 300
\* and 20)
RecentSymbolLists == {<<>>, <<"s1", "s2">>, <<"s2", "s1", "s2">>, <<"s1", "s4">>}

NoRead == [limit |-> 0]

RbInit ==
    /\ rbArgs = NoRead
    /\ rbBatch = << >>
    /\ rbSingle = << >>

\* test_batch_loader: the batch read of one interval (as batch_seed_htf_data
\* does) next to the per-symbol reads of the same symbols
ReadRecent(symbols, interval, limit) ==
    /\ rbArgs' = [symbols |-> symbols, interval |-> interval, limit |-> limit]
    /\ rbBatch' = GetRecentBatch(ohlc, "binance", symbols, interval, limit)
    /\ rbSingle' = [s \in Range(symbols) |-> GetRecent(ohlc, "binance", s, interval, limit)]
    /\ UNCHANGED <<coreVars, stVars, planVars, btVars, runVars, ntVars>>

\* ------------------------------------------------------ live symbol states

Symbols == {"s1", "s2"}
LivePrices == {10}
OiValues == {7}
\* the wt1 values the closing 15m bars of the live feed bring
LiveBars == {-44}

\* the 15m wt1 tails a SymbolState is created with: __init__ seeds the HTF
\* series from the candle store, which holds the backfilled bars
SeedTails == {<<-60, -44, -60, -60>>}

\* SymbolState.__init__(symbol, exchange)
NewSymbolState(seed) ==
    [last_price |-> None, open_interest |-> None, oi_1m |-> <<>>,
     last_cipher_signal_ts |-> None,
     wtLen |-> [tf \in Range(Timeframes) |->
                   IF tf = "15m" /\ seed # <<>> THEN WT_MIN_BARS ELSE 0],
     wtTail |-> [tf \in Range(Timeframes) |-> IF tf = "15m" THEN seed ELSE <<>>]]

\* "state = self._states.get(symbol); if state is None: state = SymbolState(...)"
StateOf(sts, symbol, seed) ==
    IF symbol \in DOMAIN sts THEN sts[symbol] ELSE NewSymbolState(seed)
KeysWith(keys, symbol) ==
    IF symbol \in Range(keys) THEN keys ELSE Append(keys, symbol)
PutState(sts, symbol, st) ==
    [s \in DOMAIN sts \cup {symbol} |-> IF s = symbol THEN st ELSE sts[s]]

\* RollingSeries.append on a deque(maxlen)
RollingAppend(values, x, maxlen) ==
    IF Len(values) >= maxlen THEN Append(Tail(values), x) ELSE Append(values, x)

\* SymbolState.compute_metrics: the metric and the state it leaves.  The
\* metric carries the fields the snapshot's consumers read here: the cipher
\* flags over the closed HTF bars, the price and open-interest fields (the
\* oi_change_* values are functions of oi_1m), the age of the last cipher
\* signal, and ts, which SymbolMetrics fills with the wall clock at
\* construction.  The %R and swing signals are not modelled (never set).
ComputeMetrics(st, symbol, now_ms) ==
    LET c == CipherMetric(st.wtLen, st.wtTail)
        fired == c.cipher_buy = "True" \/ c.cipher_sell = "True"
        last == IF fired THEN Some(now_ms) ELSE st.last_cipher_signal_ts
    IN  [metric |-> [exchange |-> "binance", symbol |-> symbol, ts |-> now_ms,
                     cipher_buy |-> c.cipher_buy = "True",
                     cipher_sell |-> c.cipher_sell = "True",
                     swing_long_buy |-> FALSE, percent_r_os_reversal |-> FALSE,
                     last_price |-> IF st.last_price = None THEN 0 ELSE st.last_price[1],
                     open_interest |-> st.open_interest, oi_1m |-> st.oi_1m,
                     cipher_signal_age_ms |->
                        IF last # None THEN Some(now_ms - last[1]) ELSE None],
         state |-> [st EXCEPT !.last_cipher_signal_ts = last]]

\* the largest element of a set of naturals ("max(..., default=0)")
MaxOf(S) == IF S = {} THEN 0 ELSE CHOOSE x \in S : \A y \in S : y <= x

\* Aggregator.build_snapshot: one metric per state in dict order, and the
\* states compute_metrics leaves.  The liquidity and market-cap enrichments
\* are not modelled.
BuildSnapshot(sts, keys, now_ms) ==
    LET r == [s \in DOMAIN sts |-> ComputeMetrics(sts[s], s, now_ms)]
        metrics == [i \in 1..Len(keys) |-> r[keys[i]].metric]
    IN  [snap |-> [exchange |-> "binance",
                   ts |-> MaxOf({metrics[i].ts : i \in 1..Len(metrics)}),
                   metrics |-> metrics],
         states |-> [s \in DOMAIN sts |-> r[s].state]]

NoOp == [op |-> "none", symbol |-> "none"]

StInit ==
    /\ states = << >>
    /\ state_keys = <<>>
    /\ snLast = None
    /\ snPrev = None
    /\ stOps = 0
    /\ stLast = NoOp
    /\ sigRows = [s \in Symbols |-> [alerts |-> 0, plans |-> 0]]

\* Aggregator._build_snapshot_payload(): build_snapshot, then
\* model_dump_json, which writes every field of the snapshot (the payload is
\* the snapshot's content).
BuildSnapshotPayload ==
    /\ stOps < MaxStOps
    /\ LET b == BuildSnapshot(states, state_keys, now)
       IN  /\ states' = b.states
           /\ snPrev' = snLast
           /\ snLast' = Some(b.snap)
    /\ stOps' = stOps + 1
    /\ stLast' = [op |-> "build", symbol |-> "none"]
    /\ UNCHANGED <<coreVars, state_keys, sigRows, rbVars, planVars, btVars, runVars, ntVars>>

\* SymbolState.update(k) on the fields kept here: last_price always; a
\* closed 1m candle that finalizes the 15m bucket appends the closed bar
\* (which brings wt1 to bar[1]) to the HTF series
UpdateSymbolState(st, price, bar) ==
    IF bar = None THEN [st EXCEPT !.last_price = Some(price)]
    ELSE [st EXCEPT !.last_price = Some(price),
                    !.wtLen["15m"] = Min(@ + 1, WT_MIN_BARS),
                    !.wtTail["15m"] = KeepTail(Append(@, bar[1]))]

\* Aggregator.ingest(k), called by task t: the symbol's state is created if
\* missing and updated, the ingest stamps are set, then emit_if_due:
\* _emit_snapshot's build, stamp and persist block, up to its first
\* suspension.
LiveIngest(t, symbol, seed, price, bar, cap) ==
    /\ emitPc[t] = "idle"
    /\ stOps < MaxStOps
    /\ \E sts1 \in {PutState(states, symbol,
                     UpdateSymbolState(StateOf(states, symbol, seed), price, bar))} :
       \E keys1 \in {KeysWith(state_keys, symbol)} :
       \E b \in {BuildSnapshot(sts1, keys1, now)} :
       \E fails \in {[i \in 1..Len(b.snap.metrics) |-> "none"]} :
       \E st \in {PersistLoop([db |-> [alerts |-> alerts, alerts_seq |-> alerts_seq,
                                      trade_plans |-> trade_plans,
                                      plans_seq |-> plans_seq,
                                      last_rowid |-> db_last_rowid],
                               log |-> <<>>, aborted |-> FALSE],
                              b.snap.metrics, fails, 1)} :
       LET ms == b.snap.metrics
           rows0 == [s \in Symbols |-> IF s = symbol /\ bar # None
                                       THEN [alerts |-> 0, plans |-> 0] ELSE sigRows[s]]
       IN  /\ state_keys' = keys1
           /\ last_kline_ingest_ts' = now
           /\ last_ingest_ts' = Max(now, last_ticker_ingest_ts)
           /\ IF EmitIsDue(now, last_emit_ts)
              THEN /\ built < cap
                   /\ sigRows' = [s \in Symbols |->
                         [alerts |-> rows0[s].alerts
                             + Cardinality({a \in st.db.alerts \ alerts : a.key[2] = s}),
                          plans |-> rows0[s].plans
                             + Cardinality({p \in st.db.trade_plans \ trade_plans :
                                               p.key[2] = s})]]
                   /\ states' = b.states
                   /\ built' = built + 1
                   /\ last_emit_ts' = now
                   /\ emitPayload' = [emitPayload EXCEPT ![t] = [seq |-> built + 1, ts |-> now]]
                   /\ lastDueTs' = now
                   /\ alerts' = st.db.alerts
                   /\ alerts_seq' = st.db.alerts_seq
                   /\ trade_plans' = st.db.trade_plans
                   /\ plans_seq' = st.db.plans_seq
                   /\ db_last_rowid' = st.db.last_rowid
                   /\ emLog' = st.log
                   /\ emAborted' = st.aborted
                   /\ emMetrics' = ms
                   /\ emFails' = fails
                   /\ emitPc' = [emitPc EXCEPT ![t] = AfterPersist(st.aborted)]
              ELSE /\ states' = sts1
                   /\ sigRows' = rows0
                   /\ UNCHANGED <<built, last_emit_ts, emitPayload, lastDueTs, emitPc,
                                  alVars, db_last_rowid>>
    /\ snLast' = None
    /\ snPrev' = None
    /\ stOps' = stOps + 1
    /\ stLast' = [op |-> "ingest", symbol |-> symbol]
    /\ UNCHANGED <<now, last_ticker_ingest_ts, subscribers, queues, lastFanout>>
    /\ UNCHANGED <<ohlc, ohlc_rowids, lastUpsert, upserts, dbReplaced>>
    /\ UNCHANGED <<supVars, rcVars, frVars, bfVars, rsVars, calcVars>>
    /\ UNCHANGED <<rbVars, planVars, btVars, runVars, ntVars>>

\* Aggregator.update_open_interest(symbol, oi_value)
UpdateOpenInterestEmits(symbol, seed, oi_value) ==
    /\ stOps < MaxStOps
    /\ emitPc["ticker"] = "idle"
    /\ LET st == StateOf(states, symbol, seed)
       IN  states' = PutState(states, symbol,
                        [st EXCEPT !.open_interest = Some(oi_value),
                                   !.oi_1m = RollingAppend(@, oi_value, MAXLEN_1M)])
    /\ state_keys' = KeysWith(state_keys, symbol)
    /\ snLast' = None
    /\ snPrev' = None
    /\ stOps' = stOps + 1
    /\ stLast' = [op |-> "update_open_interest", symbol |-> symbol]
    /\ built' = built + 1
    /\ last_emit_ts' = now
    /\ emitPayload' = [emitPayload EXCEPT !["ticker"] = [seq |-> built + 1, ts |-> now]]
    /\ emitPc' = [emitPc EXCEPT !["ticker"] = "dispatch"]
    /\ UNCHANGED <<now, last_kline_ingest_ts, last_ticker_ingest_ts, last_ingest_ts,
                   subscribers, queues, lastDueTs, lastFanout>>
    /\ UNCHANGED <<supVars, rcVars, frVars, bfVars, rsVars, dbVars, alVars, calcVars>>
    /\ UNCHANGED <<sigRows, rbVars, planVars, btVars, runVars, ntVars>>
UpdateOpenInterest(symbol, seed, oi_value) ==
    /\ stOps < MaxStOps
    /\ LET st == StateOf(states, symbol, seed)
       IN  states' = PutState(states, symbol,
                        [st EXCEPT !.open_interest = Some(oi_value),
                                   !.oi_1m = RollingAppend(@, oi_value, MAXLEN_1M)])
    /\ state_keys' = KeysWith(state_keys, symbol)
    /\ snLast' = None
    /\ snPrev' = None
    /\ stOps' = stOps + 1
    /\ stLast' = [op |-> "update_open_interest", symbol |-> symbol]
    /\ UNCHANGED <<coreVars, sigRows, rbVars, planVars, btVars, runVars, ntVars>>

AnInit ==
    /\ PlanInit
    /\ BtInit
    /\ RunInit
    /\ NtInit
    /\ RbInit
    /\ StInit

\* ---------------------------------------------------------- reconnect loops

\* _connect_and_stream (Binance and Bybit klines), stream_minitickers and
\* stream_tickers: "while True: try: async with connect(...) ... except ...".
RcStreams == {"binance_kline", "bybit_kline", "binance_ticker", "bybit_ticker"}

RcInit ==
    /\ rcPc = [s \in RcStreams |-> "connecting"]
    /\ backoff = [s \in RcStreams |-> BACKOFF_START]
    /\ rcDelay = [s \in RcStreams |-> 0]
    /\ rcFails = [s \in RcStreams |-> 0]
    /\ rcGot = [s \in RcStreams |-> FALSE]

\* "backoff = min(backoff * 2, 30)"
BackoffNextNoCap(b) == b * 2
BackoffNext(b) == Min(b * 2, BACKOFF_CAP)

\* websockets.connect succeeded: "backoff = 1.0" on entering the with-block.
RcConnectOk(s) ==
    /\ rcPc[s] = "connecting"
    /\ rcPc' = [rcPc EXCEPT ![s] = "open"]
    /\ backoff' = [backoff EXCEPT ![s] = BACKOFF_START]
    /\ rcFails' = [rcFails EXCEPT ![s] = 0]
    /\ UNCHANGED <<rcDelay, rcGot>>
    /\ UNCHANGED <<now, aggVars, supVars, extVars>>

\* websockets.connect raised: the except branch starts asyncio.sleep(backoff).
RcConnectFail(s) ==
    /\ rcPc[s] = "connecting"
    /\ rcFails[s] < MaxFails
    /\ rcPc' = [rcPc EXCEPT ![s] = "sleeping"]
    /\ rcDelay' = [rcDelay EXCEPT ![s] = backoff[s]]
    /\ rcFails' = [rcFails EXCEPT ![s] = @ + 1]
    /\ UNCHANGED <<backoff, rcGot>>
    /\ UNCHANGED <<now, aggVars, supVars, extVars>>

\* "async for message in ws": a message is received and yielded.
RcReceive(s) ==
    /\ rcPc[s] = "open"
    /\ rcGot' = [rcGot EXCEPT ![s] = TRUE]
    /\ UNCHANGED <<rcPc, backoff, rcDelay, rcFails>>
    /\ UNCHANGED <<now, aggVars, supVars, extVars>>

\* The open connection fails (ConnectionClosed with an error, or any other
\* exception): the except branch starts asyncio.sleep(backoff).
RcErrorClose(s) ==
    /\ rcPc[s] = "open"
    /\ rcPc' = [rcPc EXCEPT ![s] = "sleeping"]
    /\ rcDelay' = [rcDelay EXCEPT ![s] = backoff[s]]
    /\ rcFails' = [rcFails EXCEPT ![s] = @ + 1]
    /\ rcGot' = [rcGot EXCEPT ![s] = FALSE]
    /\ UNCHANGED backoff
    /\ UNCHANGED <<now, aggVars, supVars, extVars>>

\* The peer closes the connection gracefully: "async for" ends without an
\* exception, the with-block exits and "while True" connects again at once.
RcGracefulClose(s) ==
    /\ rcPc[s] = "open"
    /\ rcPc' = [rcPc EXCEPT ![s] = "connecting"]
    /\ rcGot' = [rcGot EXCEPT ![s] = FALSE]
    /\ UNCHANGED <<backoff, rcDelay, rcFails>>
    /\ UNCHANGED <<now, aggVars, supVars, extVars>>

\* asyncio.sleep(backoff) returns: the backoff is doubled up to the cap and
\* the loop connects again.
RcSleepDone(s) ==
    /\ rcPc[s] = "sleeping"
    /\ rcPc' = [rcPc EXCEPT ![s] = "connecting"]
    /\ backoff' = [backoff EXCEPT ![s] = BackoffNext(@)]
    /\ rcDelay' = [rcDelay EXCEPT ![s] = 0]
    /\ UNCHANGED <<rcFails, rcGot>>
    /\ UNCHANGED <<now, aggVars, supVars, extVars>>

\* The consuming task is cancelled: CancelledError is not an Exception, it
\* leaves the loop; the generator's locals are gone.
RcCancel(s) ==
    /\ rcPc[s] # "cancelled"
    /\ rcPc' = [rcPc EXCEPT ![s] = "cancelled"]
    /\ backoff' = [backoff EXCEPT ![s] = BACKOFF_START]
    /\ rcDelay' = [rcDelay EXCEPT ![s] = 0]
    /\ rcFails' = [rcFails EXCEPT ![s] = 0]
    /\ rcGot' = [rcGot EXCEPT ![s] = FALSE]
    /\ UNCHANGED <<now, aggVars, supVars, extVars>>

\* State after construction, with the default configuration
\* (ENABLE_FULL_REFRESH_5M unset).
Init ==
    /\ now = StartMs
    /\ AggInit
    /\ SupInit
    /\ RcInit
    /\ FrInit
    /\ BfInit
    /\ RsInit
    /\ DbInit
    /\ AlInit
    /\ SigInit
    /\ GrInit
    /\ AnInit
    /\ enable_full_refresh = FALSE

\* State after construction, under either setting of ENABLE_FULL_REFRESH_5M.
InitAnyConfig ==
    /\ now = StartMs
    /\ AggInit
    /\ SupInit
    /\ RcInit
    /\ FrInit
    /\ BfInit
    /\ RsInit
    /\ DbInit
    /\ AlInit
    /\ SigInit
    /\ GrInit
    /\ AnInit
    /\ enable_full_refresh \in BOOLEAN

\* The aggregator under concurrent callers: the kline task, the ticker task
\* and the start / full-refresh task (backfill ingest and heartbeat).
NextAgg ==
    \/ \E d \in TickMs : Tick(d, MaxNow)
    \/ \E t \in {"kline", "refresh"} : Ingest(t, MaxEmits)
    \/ \E ts \in {0, now} : UpdateTicker("ticker", ts, MaxEmits)
    \/ HeartbeatEmit("refresh", MaxEmits)
    \/ \E t \in EmitTasks : EmitFanout(t)
    \/ \E q \in QueueIds : Subscribe(q)
    \/ \E q \in QueueIds : Unsubscribe(q)
    \/ \E q \in QueueIds : SubscriberGet(q)

SpecAgg == Init /\ [][NextAgg]_vars

\* A burst of forced emits onto a subscriber that never reads.
NextQueue ==
    \/ HeartbeatEmit("refresh", MaxBurst)
    \/ EmitFanout("refresh")
    \/ \E q \in QueueIds : Subscribe(q)
    \/ \E q \in QueueIds : Unsubscribe(q)

SpecQueue == Init /\ [][NextQueue]_vars

WdTickMs == {20000}

\* The supervisor's streams and watchdogs under a running clock.
NextWatchdog ==
    \/ \E d \in WdTickMs : Tick(d, MaxClock)
    \/ StartStreams
    \/ StartBackfill
    \/ StartHeartbeat
    \/ StartRest
    \/ \E t \in EmitTasks : EmitFanout(t)
    \/ RunBinance
    \/ \E ts \in {0, now} : RunBinanceTicker(ts)
    \/ \E w \in Watchdogs : WatchdogPoll(w)
    \/ \E w \in Watchdogs : WatchdogRestartDone(w)
    \/ \E s \in Slots : TaskCancelled(s)

SpecWatchdog == Init /\ [][NextWatchdog]_vars

\* The supervisor's task lifecycle: start, tasks dying, the health monitor, stop.
NextLifecycle ==
    \/ StartStreams
    \/ StartHeartbeat
    \/ StartRest
    \/ EmitFanout("refresh")
    \/ \E s \in Slots : \E how \in {"failed", "finished"} : TaskDies(s, how)
    \/ \E s \in Slots : TaskCancelled(s)
    \/ MonitorCheck
    \/ StopBegin
    \/ StopAwait
    \/ StopClose

SpecLifecycle == InitAnyConfig /\ [][NextLifecycle]_vars

\* The websocket reconnect loops of the four kline / ticker streams.
NextReconnect ==
    \/ \E s \in RcStreams : RcConnectOk(s)
    \/ \E s \in RcStreams : RcConnectFail(s)
    \/ \E s \in RcStreams : RcReceive(s)
    \/ \E s \in RcStreams : RcErrorClose(s)
    \/ \E s \in RcStreams : RcGracefulClose(s)
    \/ \E s \in RcStreams : RcSleepDone(s)
    \/ \E s \in RcStreams : RcCancel(s)

SpecReconnect == Init /\ [][NextReconnect]_vars

\* the instants at which the refresh model samples the clock: 100 s steps,
\* and 1 s steps in the three seconds that follow a 5-minute boundary
RefreshTickMs(now_ms) ==
    IF now_ms % (REFRESH_PERIOD_S * 1000) < 3000 THEN {1000, 100000} ELSE {100000}

\* The optional full-refresh loop after start(), under a running clock.
NextRefresh ==
    \/ \E d \in RefreshTickMs(now) : Tick(d, MaxRefreshClock)
    \/ StartStreams
    \/ StartHeartbeat
    \/ StartRest
    \/ EmitFanout("refresh")
    \/ \E s \in Slots : TaskCancelled(s)
    \/ RefreshSleep
    \/ RefreshWake
    \/ RefreshRestartDone
    \/ RefreshBackfillIngest
    \/ \E ok \in BOOLEAN : RefreshBackfillDone(ok)
    \/ \E ok \in BOOLEAN : RefreshOI(ok)
    \/ RefreshEmit
    \/ RefreshIterDone

SpecRefresh == InitAnyConfig /\ [][NextRefresh]_vars

\* The restarters of the stream tasks while the streams deliver nothing:
\* start, the kline watchdog, the health monitor and the full-refresh loop
\* (its REST calls succeeding), with cancellations taking effect at any point.
NextSupervise ==
    \/ \E d \in RefreshTickMs(now) : Tick(d, MaxSupClock)
    \/ StartStreams
    \/ StartHeartbeat
    \/ StartRest
    \/ EmitFanout("refresh")
    \/ \E s \in Slots : TaskCancelled(s)
    \/ \E s \in StreamSlots : StrayCancelled(s)
    \/ MonitorCheck
    \/ WatchdogPoll("binance_kline")
    \/ WatchdogRestartDone("binance_kline")
    \/ RefreshSleep
    \/ RefreshWake
    \/ RefreshRestartDone
    \/ RefreshBackfillDone(TRUE)
    \/ RefreshOI(TRUE)
    \/ RefreshEmit
    \/ RefreshIterDone

SpecSupervise == InitAnyConfig /\ [][NextSupervise]_vars

\* stop() while the kline watchdog keeps polling a silent stream.
NextShutdown ==
    \/ Tick(WD_TIMEOUT_MS + WD_INTERVAL_MS, MaxShutdownClock)
    \/ StartStreams
    \/ StartHeartbeat
    \/ StartRest
    \/ EmitFanout("refresh")
    \/ \E s \in Slots : TaskCancelled(s)
    \/ WatchdogPoll("binance_kline")
    \/ WatchdogRestartDone("binance_kline")
    \/ StopBegin
    \/ StopAwait
    \/ StopClose

SpecShutdown == Init /\ [][NextShutdown]_vars

\* The startup backfill of start(), with per-symbol failures.
NextBackfill ==
    \/ Tick(SNAPSHOT_INTERVAL_MS, MaxBackfillClock)
    \/ StartStreams
    \/ \E ok \in BOOLEAN : BackfillBegin(ok)
    \/ \E fail \in BfStages : BackfillSymbol(fail)
    \/ EmitFanout("refresh")

SpecBackfill == Init /\ [][NextBackfill]_vars

\* One symbol's state fed 1m candles in time order, with intrabar updates.
NextResample ==
    \/ \E start \in RsStarts : \E i \in 1..Len(KlineShapes) : UpdateClosed(start, i)
    \/ UpdateIntrabar

SpecResample == Init /\ [][NextResample]_vars

\* One symbol's state fed 1m candles in time order by the stream, some of
\* them a second time by a backfill, which also reseeds the HTF series.
NextReplay ==
    \/ \E start \in RsStarts : UpdateClosed(start, 1)
    \/ \E back \in ReplayBack : UpdateReplayed(back)
    \/ SeedHtfFromDb

SpecReplay == Init /\ [][NextReplay]_vars

\* The candle store under direct upserts.
NextStore ==
    \E c \in CandleInputs : UpsertCandleCall(c)

SpecStore == Init /\ [][NextStore]_vars

\* Emits whose snapshots carry cipher signals, replayed at the same
\* millisecond or not, between candle upserts on the same connection.
NextAlerts ==
    \/ Tick(SNAPSHOT_INTERVAL_MS, MaxAlertClock)
    \/ \E ms \in {x \in SnapshotMetrics(now) :
                    \A i \in 1..Len(x) : ~x[i].swing_long_buy /\ ~x[i].percent_r_os_reversal
                                          /\ ~x[i].cipher_sell} :
            EmitPersist("refresh", MaxAlertEmits, ms, [i \in 1..Len(ms) |-> "none"])
    \/ EmitFanout("refresh")
    \/ \E c \in {x \in CandleInputs : x.exchange = "binance" /\ x.high = 12} :
            UpsertCandleCall(c)

SpecAlerts == Init /\ [][NextAlerts]_vars

\* One emit's persist block over every kind of snapshot, with and without a
\* failure while one of its metrics is handled.
NextPersist ==
    \/ \E ms \in SnapshotMetrics(now) : \E fails \in PersistFailureSeqs(Len(ms)) :
            EmitPersist("refresh", MaxPersistEmits, ms, fails)
    \/ EmitFanout("refresh")

SpecPersist == Init /\ [][NextPersist]_vars

\* Kline ingests whose due emits persist cipher alerts, with and without a
\* failure of the store, fanned out to a subscriber.
NextIngestPersist ==
    \/ Tick(SNAPSHOT_INTERVAL_MS, MaxIngestClock)
    \/ Subscribe("q1")
    \/ \E ms \in {x \in SnapshotMetrics(now) :
                    \A i \in 1..Len(x) : ~x[i].swing_long_buy /\ ~x[i].percent_r_os_reversal} :
          \E fails \in PersistFailureSeqs(Len(ms)) :
              IngestPersist("kline", MaxIngestEmits, ms, fails)
    \/ EmitFanout("kline")

SpecIngestPersist == Init /\ [][NextIngestPersist]_vars

\* One symbol's HTF series growing bar by bar, metrics computed at each bar.
NextSignals ==
    \E tf \in Range(Timeframes) : \E v \in WtGrid : IngestClosingBar(tf, v)

SpecSignals == Init /\ [][NextSignals]_vars

\* The grader called on metrics dicts over the values of GradeValues.
NextGrade ==
    \E signal \in {"BUY", "SELL"} : \E f \in DOMAIN GradeValues : \E v \in GradeValues[f] :
        GradeNext(signal, f, v)

SpecGrade == Init /\ [][NextGrade]_vars

\* The grader called on metrics dicts over the values of RvolValues, and
\* again with rvol_1m raised.
NextRvol ==
    \/ \E signal \in {"BUY", "SELL"} : \E f \in DOMAIN RvolValues : \E v \in RvolValues[f] :
          GradeNext(signal, f, v)
    \/ \E v \in RvolSteps : RaiseRvol(v)

SpecRvol == Init /\ [][NextRvol]_vars

\* The grader as _emit_snapshot calls it, on metrics from compute_metrics.
NextLiveGrade ==
    \E signal \in {"BUY", "SELL"} : \E f \in LiveFields : \E v \in LiveValues(f) :
        GradeLive(signal, f, v)

SpecLiveGrade == Init /\ [][NextLiveGrade]_vars

\* build_trade_plan over PlanArgs.
NextPlan ==
    \E a \in PlanArgs : BuildTradePlanCall(a)

SpecPlan == Init /\ [][NextPlan]_vars

\* Backtests of the stored plans over forward lists that grow bar by bar.
NextBacktest ==
    \/ \E a \in BtPlanArgs : BacktestStart(a)
    \/ \E c \in BtCandles : BacktestBar(c)

SpecBacktest == Init /\ [][NextBacktest]_vars

\* Emits that persist cipher alerts for one symbol, between analysis runs by
\* the autorun loop and by the endpoint, and one change of build.
NextAnalysis ==
    \/ Tick(SNAPSHOT_INTERVAL_MS, MaxAnalysisClock)
    \/ \E f \in {x \in SignalKinds : x.cipher_buy \/ x.cipher_sell} :
          EmitPersist("refresh", MaxAnalysisEmits, <<Metric("s1", now, f)>>, <<"none">>)
    \/ EmitFanout("refresh")
    \/ AutorunIteration
    \/ \E w \in Range(AnalysisWindows) : MetaAnalysisRun(w)
    \/ Redeploy

SpecAnalysis == Init /\ [][NextAnalysis]_vars

\* process_metrics called with one symbol's metric as the clock advances.
NextNotify ==
    \/ Tick(ALERT_DEDUP_MIN_MS, MaxNotifyClock)
    \/ \E m \in NotifyMetrics : ProcessMetrics(<<m>>)

SpecNotify == Init /\ [][NextNotify]_vars

\* Candles upserted into the store, read back in batch and per symbol.
NextRecent ==
    \/ \E c \in RecentCandles : UpsertCandleCall(c)
    \/ \E symbols \in RecentSymbolLists : \E interval \in {"15m", "4h"} :
          \E limit \in 1..MaxLimit : ReadRecent(symbols, interval, limit)

SpecRecent == Init /\ [][NextRecent]_vars

\* Kline ingests and open-interest updates on the symbol states of one
\* aggregator, with payload builds by the websocket endpoint in between.
NextLive ==
    \/ Tick(SNAPSHOT_INTERVAL_MS, MaxLiveClock)
    \/ now % SNAPSHOT_INTERVAL_MS = StartMs % SNAPSHOT_INTERVAL_MS /\ Tick(1, MaxLiveClock)
    \/ Subscribe("q1")
    \/ \E s \in Symbols : \E seed \in SeedTails : \E p \in LivePrices :
          \E bar \in {None} \cup {Some(v) : v \in LiveBars} :
              LiveIngest("kline", s, seed, p, bar, MaxLiveEmits)
    \/ EmitFanout("kline")
    \/ \E s \in Symbols : \E seed \in SeedTails : \E oi \in OiValues :
          UpdateOpenInterest(s, seed, oi)
    \/ BuildSnapshotPayload

SpecLive == Init /\ [][NextLive]_vars

\* ------------------------------------------------------ aggregator claims

\* C1: emit_if_due emits iff now - last_emit_ts >= SNAPSHOT_INTERVAL_MS, and
\* every emission through emit_if_due is at least the throttle after the
\* previous one (so a burst of calls inside one window emits once).
ThrottleHolds ==
    [][ (\/ last_kline_ingest_ts' # last_kline_ingest_ts
         \/ last_ticker_ingest_ts' # last_ticker_ingest_ts
         \/ lastDueTs' # lastDueTs) =>
          /\ (built' = built + 1) <=> (now - last_emit_ts >= SNAPSHOT_INTERVAL_MS)
          /\ built' = built + 1 =>
                /\ lastDueTs' = now
                /\ last_emit_ts' = now
                /\ lastDueTs = 0 \/ now - lastDueTs >= SNAPSHOT_INTERVAL_MS ]_vars

\* C1 witness: a kline arrived inside the window after a throttled emission
\* and was not emitted.
ThrottleWitness ==
    /\ lastDueTs > 0
    /\ lastDueTs = last_emit_ts
    /\ last_kline_ingest_ts > lastDueTs
    /\ last_kline_ingest_ts - lastDueTs < SNAPSHOT_INTERVAL_MS
    /\ built = 1

\* C2: with a subscriber that never reads, its queue never holds more than
\* 100 payloads, a fan-out onto a full queue removes exactly the oldest
\* payload, and the latest fanned-out payload is the newest queue element.
DropOldestHolds ==
    /\ [](\A q \in QueueIds :
            /\ Len(queues[q]) <= QueueMaxSize
            /\ (q \in Range(subscribers) /\ queues[q] # <<>>) => Last(queues[q]) = lastFanout)
    /\ [][ lastFanout' # lastFanout =>
            \A q \in Range(subscribers) :
                /\ q \in Range(subscribers')
                /\ Last(queues'[q]) = lastFanout'
                /\ SubSeq(queues'[q], 1, Len(queues'[q]) - 1) =
                      IF Len(queues[q]) = QueueMaxSize THEN Tail(queues[q]) ELSE queues[q] ]_vars

\* C2 witness: a full queue whose oldest payloads have been dropped.
DropOldestWitness ==
    \E q \in Range(subscribers) :
        /\ Len(queues[q]) = QueueMaxSize
        /\ queues[q][1].seq = 3
        /\ Last(queues[q]) = lastFanout
        /\ lastFanout.seq = QueueMaxSize + 2

\* C3: in every subscriber queue the payloads appear in the order they were
\* built (non-decreasing last_emit_ts stamp).
EmitMonotonic ==
    \A q \in QueueIds : \A i, j \in 1..Len(queues[q]) :
        i < j => queues[q][i].ts <= queues[q][j].ts

\* ------------------------------------------------------ supervisor claims

\* the timestamp each stream's watchdog is meant to watch
OwnIngestTs(w) == IF w = "binance_kline" THEN last_kline_ingest_ts ELSE last_ticker_ingest_ts

\* C4: a watchdog only wakes after its interval, and at each wake-up it
\* invokes restart for its stream exactly when the age of that stream's own
\* last-ingest timestamp exceeds 60 s, whatever the other stream's timestamp is.
WatchdogRestartsStale ==
    [][ \A w \in Watchdogs :
          (wdPc[w] = "sleeping" /\ (wdPc'[w] # wdPc[w] \/ wdWake'[w] # wdWake[w])) =>
              /\ now >= wdWake[w]
              /\ (now - OwnIngestTs(w) > WD_TIMEOUT_MS) <=>
                    /\ wdPc'[w] = "restarting"
                    /\ wdInvoked'[w] = wdInvoked[w] + 1
                    /\ task'[WdSlot(w)] # "running" ]_vars

\* C4 witness: the kline watchdog is restarting a stalled kline stream while
\* the ticker stream delivered within the last poll interval.
WatchdogIndependenceWitness ==
    /\ wdPc["binance_kline"] = "restarting"
    /\ now - last_kline_ingest_ts > WD_TIMEOUT_MS
    /\ now - last_ticker_ingest_ts < WD_INTERVAL_MS
    /\ wdInvoked["binance_ticker"] = 0

\* C5 as claimed: while a stream's last-ingest timestamp stays frozen, its
\* watchdog invokes restart once only.
RestartOnceWhileFrozen ==
    \A w \in Watchdogs : wdCount[w] <= 1

\* C5 as amended: while the timestamp stays frozen the watchdog invokes
\* restart once per wake-up, wake-ups being at least the poll interval apart
\* (the k-th restart on the same frozen timestamp happens when its age
\* exceeds 60 s + (k-1) * 20 s), and every restart invocation that has
\* returned started exactly one new task.
RestartOncePerPoll ==
    \A w \in Watchdogs :
        /\ (wdCount[w] >= 1 /\ wdSeen[w] = OwnIngestTs(w)) =>
              now - wdSeen[w] > WD_TIMEOUT_MS + (wdCount[w] - 1) * WD_INTERVAL_MS
        /\ wdInvoked[w] = wdCreated[w] + (IF wdPc[w] = "restarting" THEN 1 ELSE 0)
        /\ wdCount[w] <= wdInvoked[w]

\* C5 witness: the kline timestamp is still the construction time, the
\* watchdog has restarted the stream twice and two tasks were started.
RestartOncePerPollWitness ==
    /\ wdCount["binance_kline"] = 2
    /\ wdCreated["binance_kline"] = 2
    /\ wdSeen["binance_kline"] = last_kline_ingest_ts
    /\ task["_task"] = "running"

\* C6: stop() never ends by raising, and when it has returned every managed
\* task has terminated, the OI fetcher is stopped and the HTTP client closed.
StopReturnsNormally ==
    /\ stopPc # "raised"
    /\ stopPc = "returned" =>
          /\ \A s \in Slots : task[s] \in Done \cup {"none"}
          /\ oi_client = "none"
          /\ client_closed

\* C7: a second stop() returns normally and leaves the clients as the first
\* call left them, with no task running.
StopIdempotent ==
    (stopCalls = 2 /\ stopPc \in {"returned", "raised"}) =>
        /\ stopPc = "returned"
        /\ oi_client = afterFirst.oi
        /\ client_closed = afterFirst.closed
        /\ \A s \in Slots : task[s] \in Done \cup {"none"}

\* C8: a pass of the health monitor leaves no terminated ingestion task
\* (kline, ticker, OI poll, liquidations) terminated.
IngestionSlots == Slots \ {"_task_health_monitor", "_task_full_refresh"}
MonitorRestartsAll ==
    monitorLeft \cap IngestionSlots = {}

\* C11: every refresh iteration sleeps until the first 5-minute boundary
\* after the time the sleep was computed plus FULL_REFRESH_OFFSET_SEC, does
\* not begin earlier, completes its phases in the order restart, backfill,
\* OI, emit, has by the end of the restart phase replaced the task of every
\* ingestion slot (kline, ticker, OI poll, liquidations), and has fanned out
\* a snapshot by its end, whether or not backfill or the OI fetch failed.
RefreshPhases == <<"restart", "backfill", "oi", "emit">>
RefreshDoesAll ==
    /\ frPc \notin {"init", "loop"} =>
          LET b == frWake - FULL_REFRESH_OFFSET_SEC * 1000
          IN  /\ b % (REFRESH_PERIOD_S * 1000) = 0
              /\ b > frSleepStart
              /\ b - REFRESH_PERIOD_S * 1000 <= frSleepStart
    /\ frPc \notin {"init", "loop", "sleeping"} => now >= frWake
    /\ frLog = SubSeq(RefreshPhases, 1, Len(frLog))
    /\ Len(frLog) >= 1 =>
          \A s \in IngestionSlots : created[s] > 0 => s \in frRestarted
    /\ Len(frLog) = Len(RefreshPhases) =>
          /\ lastFanout # NoPayload
          /\ lastFanout.ts >= frWake

\* ------------------------------------------------------- backfill claims

\* C12: a symbol's failure at any stage never stops the batch: once
\* symbols() has returned, every symbol the loop has passed whose own
\* backfill did not fail has its 1m rows ingested, its 15m and 4h rows
\* stored and its HTF series seeded, and the loop passes every symbol.
BackfillBestEffort ==
    /\ bfPc \in {"running", "done"} =>
          \A i \in 1..Len(BfSymbols) :
              LET s == BfSymbols[i]
              IN  /\ (i < bfIdx /\ bfFail[s] = "none") =>
                        /\ s \in bfIngested
                        /\ <<s, "15m">> \in bfStored /\ <<s, "4h">> \in bfStored
                        /\ s \in bfSeeded
                  /\ (i < bfIdx /\ bfFail[s] \in {"15m", "4h"}) => s \in bfIngested
                  /\ i >= bfIdx => bfFail[s] = "none" /\ s \notin bfIngested
    /\ bfPc = "done" =>
          \A s \in Range(BfSymbols) : bfFail[s] = "none" => s \in bfIngested

\* C12 witness: the batch is complete; the first symbol failed at its 1m
\* request, the second at its 4h request, and the third is fully backfilled.
BackfillBestEffortWitness ==
    /\ bfPc = "done"
    /\ bfFail["s1"] = "1m" /\ "s1" \notin bfIngested
    /\ bfFail["s2"] = "4h" /\ "s2" \in bfIngested /\ <<"s2", "4h">> \notin bfStored
    /\ bfFail["s3"] = "none" /\ "s3" \in bfIngested /\ "s3" \in bfSeeded
    /\ <<"s3", "15m">> \in bfStored /\ <<"s3", "4h">> \in bfStored

\* ------------------------------------------------- resampler and store claims

\* C13: an update with closed = false changes no HTF current bucket, no HTF
\* rolling series and no row of the candle store.
IntrabarNeverFeedsHtf ==
    [][ rsLastClosed' = "intrabar" /\ rsIntrabar' = rsIntrabar + 1 =>
          UNCHANGED <<rsCurrent, rsSeries, ohlc, ohlc_rowids>> ]_vars

\* C13 witness: an intrabar update arrived in the middle of a 15m bucket; it
\* moved last_price and left the bucket's close and extremes alone.
IntrabarNeverFeedsHtfWitness ==
    /\ rsLastClosed = "intrabar"
    /\ rsFed = 20
    /\ rsLastPrice = IntrabarShape.close
    /\ rsCurrent["15m"] # NoBucket
    /\ rsCurrent["15m"].close # IntrabarShape.close
    /\ rsCurrent["15m"].high < IntrabarShape.high
    /\ Len(rsSeries["15m"]) = 1
    /\ Cardinality(ohlc) = 1

\* C14: once 60 closed 1m candles covering exactly four 15m buckets have
\* been fed in time order, the store holds 4 rows at interval 15m, one per
\* bucket, with bucket-aligned open_time, high = max, low = min, close = last
\* close and volume = sum over the bucket's candles.
ResampleStoresFourRows ==
    rsFed = 60 =>
        LET rows15 == {r \in ohlc : r.interval = "15m"}
        IN  /\ Cardinality(rows15) = 4
            /\ Len(rsExpect) = 4
            /\ \A j \in 1..Len(rsExpect) :
                  /\ rsExpect[j].n = 15
                  /\ \E r \in rows15 :
                        /\ r.open_time = rsExpect[j].open_time
                        /\ r.open_time % HTF_INTERVAL_MS["15m"] = 0
                        /\ r.high = rsExpect[j].high /\ r.low = rsExpect[j].low
                        /\ r.close = rsExpect[j].close /\ r.volume = rsExpect[j].volume

\* C15: an upsert leaves exactly one row for its key, equal to its
\* arguments, leaves every row with another key as it was, and repeating the
\* previous upsert changes nothing.
UpsertIdempotent ==
    [][ upserts' = upserts + 1 =>
          LET c == lastUpsert'
          IN  /\ {r \in ohlc' : CandleKey(r) = CandleKey(c)} = {c}
              /\ {r \in ohlc' : CandleKey(r) # CandleKey(c)} =
                    {r \in ohlc : CandleKey(r) # CandleKey(c)}
              /\ lastUpsert = c => ohlc' = ohlc ]_vars

\* C15 witness: the latest upsert replaced the row of an existing key with
\* different values while rows of two other keys are in the store.
UpsertIdempotentWitness ==
    /\ dbReplaced
    /\ lastUpsert \in ohlc
    /\ Cardinality(ohlc) = 3
    /\ upserts = 4

\* C36: whatever closed 1m candles are fed more than once, or after candles
\* of a newer bucket, each persisted 15m candle has the summed volume, the
\* highest high and the lowest low of the distinct closed 1m candles of its
\* bucket.
ResampleIdempotent ==
    \A r \in {x \in ohlc : x.interval = "15m"} :
        \E j \in 1..Len(rsExpect) :
            /\ rsExpect[j].open_time = r.open_time
            /\ r.volume = rsExpect[j].volume
            /\ r.high = rsExpect[j].high /\ r.low = rsExpect[j].low

\* C37: each HTF rolling series holds at most one entry per bucket, in
\* increasing open_time order.
HtfSeriesOnePerBucket ==
    \A tf \in Range(Timeframes) :
        \A i, j \in 1..Len(rsSeries[tf]) :
            i < j => rsSeries[tf][i].bucket < rsSeries[tf][j].bucket

\* ----------------------------------------------------- alert store claims

\* C16: an insert_alert whose key already exists adds no row and returns the
\* id of the existing row of that key, whatever was inserted before in any
\* table, and the trade plan inserted next references that id.
AlertInsertIdempotent ==
    \A i \in 1..Len(emLog) :
        emLog[i].existing # 0 =>
            /\ emLog[i].ret = emLog[i].existing
            /\ emLog[i].plan \in {0, emLog[i].existing}

\* C17: after an emit, every metric of the snapshot that carries a cipher
\* buy/sell, a swing long or a %R reversal, and for which nothing failed, has
\* been graded and planned and has an alert row and a trade plan referencing
\* that alert, whatever failed for the other metrics of the emit.
EmitPersistsEverySignal ==
    \A i \in 1..Len(emMetrics) :
        LET m == emMetrics[i]
        IN  (/\ m.cipher_buy \/ m.cipher_sell \/ m.swing_long_buy \/ m.percent_r_os_reversal
             /\ emFails[i] = "none")
            => \E j \in 1..Len(emLog) :
                  /\ emLog[j].key[2] = m.symbol
                  /\ emLog[j].key[4] = m.ts
                  /\ emLog[j].graded
                  /\ emLog[j].plan # 0
                  /\ \E a \in alerts : /\ a.key = emLog[j].key
                                        /\ \E p \in trade_plans : p.alert_id = a.id

\* ---------------------------------------------------- cipher signal claims

\* the edge condition of the claim on the wavetrend tuple w (values in thirds)
EdgeBuy(w) ==
    /\ w[1] # None
    /\ w[3][1] - w[4][1] < 0
    /\ w[1][1] - w[2][1] >= 0
    /\ w[2][1] <= WT_MALEN * CIPHERB_OS_LEVEL
EdgeSell(w) ==
    /\ w[1] # None
    /\ w[3][1] - w[4][1] > 0
    /\ w[1][1] - w[2][1] <= 0
    /\ w[2][1] >= WT_MALEN * CIPHERB_OB_LEVEL

CipherEdge ==
    /\ wtMetric.buy15 = "True" <=> EdgeBuy(WaveTrend(wtLen["15m"], wtTail["15m"]))
    /\ wtMetric.sell15 = "True" <=> EdgeSell(WaveTrend(wtLen["15m"], wtTail["15m"]))
    /\ wtMetric.buy4h = "True" <=> EdgeBuy(WaveTrend(wtLen["4h"], wtTail["4h"]))
    /\ wtMetric.sell4h = "True" <=> EdgeSell(WaveTrend(wtLen["4h"], wtTail["4h"]))

\* a new closed bar of tf on which wt1 was already on the signal's side of
\* wt2 at the previous bar does not fire, in particular not the bar after a
\* fire
CipherNoRepeat ==
    /\ (wtTail'["15m"] # wtTail["15m"] \/ wtLen'["15m"] # wtLen["15m"]) =>
            /\ wtMetric.buy15 = "True" => wtMetric'.buy15 # "True"
            /\ wtMetric.sell15 = "True" => wtMetric'.sell15 # "True"
    /\ (wtTail'["4h"] # wtTail["4h"] \/ wtLen'["4h"] # wtLen["4h"]) =>
            /\ wtMetric.buy4h = "True" => wtMetric'.buy4h # "True"
            /\ wtMetric.sell4h = "True" => wtMetric'.sell4h # "True"

GradeMapping ==
    grResult # NoGrade =>
        LET aligned == Cardinality(MtfPassed(grMetrics, grSignal)) >= 3
            isA == grResult.score >= 12 /\ aligned
        IN  /\ grResult.grade = "A" <=> isA
            /\ grResult.grade = "B" <=> (~isA /\ grResult.score >= 6)
            /\ grResult.grade = "C" <=> (~isA /\ grResult.score < 6)

\* a BUY graded with a score of exactly 8 whose 1h RSI is overbought and
\* whose MTF checks pass fewer than 3 times: graded B
GradeMappingWitness ==
    /\ grResult.grade = "B"
    /\ grResult.score = 16
    /\ grSignal = "BUY"
    /\ grMetrics["rsi_1h"] = Some(80)
    /\ Cardinality(MtfPassed(grMetrics, grSignal)) = 2

\* the metrics dicts the live path can present after base, by changes of
\* the fields F over the values studied
RECURSIVE LiveInputsFrom(_, _)
LiveInputsFrom(base, F) ==
    IF F = {} THEN {ModelDump(base)}
    ELSE LET f == CHOOSE x \in F : TRUE
         IN  {[m EXCEPT ![f] = v] : m \in LiveInputsFrom(base, F \ {f}), v \in LiveValues(f)}

\* C38: grade A is attainable on the live path: whatever was graded last,
\* some metric produced by compute_metrics is graded A by _emit_snapshot,
\* for BUY or for SELL.
GradeAAttainable ==
    \E signal \in {"BUY", "SELL"} : \E m \in LiveInputsFrom(grMetrics, LiveFields) :
        GradeAlert(m, signal).grade = "A"

GradeRank(g) == CASE g = "A" -> 3 [] g = "B" -> 2 [] g = "C" -> 1 [] OTHER -> 0

\* C20: with every other metric and the side fixed, raising rvol_1m within
\* 1.0 .. 2.5 never lowers setup_score, and setup_grade stays or moves up.
RvolMonotone ==
    grPrev # NoGrade =>
        /\ grResult.score >= grPrev.score
        /\ GradeRank(grResult.grade) >= GradeRank(grPrev.grade)

\* a raise of rvol_1m that lifted the grade from B to A
RvolMonotoneWitness ==
    /\ grPrev # NoGrade
    /\ grPrev.grade = "B"
    /\ grResult.grade = "A"
    /\ grResult.score > grPrev.score

\* -------------------------------------------------------- trade plan claims

\* a <= b for an Optional b: holds when b is None
LeOpt(a, b) == b = None \/ a <= b[1]
OptLeOpt(a, b) == a = None \/ b = None \/ a[1] <= b[1]

\* C21: every plan build_trade_plan returns satisfies, for BUY,
\* stop_loss <= entry_price <= tp1 <= tp2 <= tp3 and risk_per_unit =
\* entry_price - stop_loss, and for SELL the mirror, whatever the ATR and the
\* swings are (None, or beyond the entry).
PlanInvariants ==
    /\ (tpPlan.side = "BUY" /\ ~tpPlan.raised) =>
          /\ tpPlan.stop_loss <= tpPlan.entry_price
          /\ LeOpt(tpPlan.entry_price, tpPlan.tp1)
          /\ OptLeOpt(tpPlan.tp1, tpPlan.tp2)
          /\ OptLeOpt(tpPlan.tp2, tpPlan.tp3)
          /\ tpPlan.risk_per_unit = tpPlan.entry_price - tpPlan.stop_loss
    /\ (tpPlan.side = "SELL" /\ ~tpPlan.raised) =>
          /\ tpPlan.stop_loss >= tpPlan.entry_price
          /\ tpPlan.tp1 = None \/ tpPlan.entry_price >= tpPlan.tp1[1]
          /\ OptLeOpt(tpPlan.tp2, tpPlan.tp1)
          /\ OptLeOpt(tpPlan.tp3, tpPlan.tp2)
          /\ tpPlan.risk_per_unit = tpPlan.stop_loss - tpPlan.entry_price

\* the stop and the targets the claim prescribes for arguments a, in quarters
ClaimedStop(a) ==
    LET E == 4 * a.entry_price
        atrStop == IF a.side = "BUY" THEN E - 10 * a.atr[1] ELSE E + 10 * a.atr[1]
        swing == IF a.side = "BUY" THEN a.swing_low_15m ELSE a.swing_high_15m
    IN  IF swing = None /\ a.atr = None THEN E
        ELSE IF swing = None THEN atrStop
        ELSE IF a.atr = None THEN 4 * swing[1]
        ELSE IF a.side = "BUY" THEN Min(4 * swing[1], atrStop)
        ELSE Max(4 * swing[1], atrStop)

\* C22: stop = min(swing_low, E - 2.5 atr) for BUY, max(swing_high, E + 2.5
\* atr) for SELL over the non-null candidates, the entry without candidates;
\* tp1..tp3 are None when risk = |E - stop| is 0 and E + sign * R_i * risk
\* with R = (1.5, 2.5, 4.0) otherwise; any other side raises.
PlanSelection ==
    tpArgs.side # "none" =>
        IF tpArgs.side \notin {"BUY", "SELL"} THEN tpPlan.raised
        ELSE LET E == 4 * tpArgs.entry_price
                 stop == ClaimedStop(tpArgs)
                 risk == IF E >= stop THEN E - stop ELSE stop - E
                 sign == IF tpArgs.side = "BUY" THEN 1 ELSE -1
             IN  /\ ~tpPlan.raised
                 /\ tpPlan.stop_loss = stop
                 /\ risk = 0 => tpPlan.tp1 = None /\ tpPlan.tp2 = None /\ tpPlan.tp3 = None
                 /\ risk # 0 =>
                       /\ 2 * tpPlan.tp1[1] = 2 * E + sign * 3 * risk
                       /\ 2 * tpPlan.tp2[1] = 2 * E + sign * 5 * risk
                       /\ tpPlan.tp3[1] = E + sign * 4 * risk

\* a BUY plan whose swing low is wider than the ATR stop: the swing is the
\* stop and the targets are set
PlanSelectionWitness ==
    /\ tpArgs.side = "BUY"
    /\ tpArgs.swing_low_15m = Some(94)
    /\ tpArgs.atr = Some(2)
    /\ tpPlan.stop_loss = 4 * 94
    /\ tpPlan.tp1 # None

\* -------------------------------------------------------- backtester claims

BtBuy == btPlan.side = "BUY"
BtRisk == IF btPlan.entry >= btPlan.stop THEN btPlan.entry - btPlan.stop
          ELSE btPlan.stop - btPlan.entry
BtTargets == {t[1] : t \in {btPlan.tp1, btPlan.tp2, btPlan.tp3} \ {None}}
\* bar i's adverse extreme is at or beyond the stop
StopHit(i) == IF BtBuy THEN btForward[i].l <= btPlan.stop ELSE btForward[i].h >= btPlan.stop
\* bar i's favourable extreme is at or beyond the target t
TpHitAt(i, t) == IF BtBuy THEN btForward[i].h >= t ELSE btForward[i].l <= t
TpHit(i) == \E t \in BtTargets : TpHitAt(i, t)
\* the first bar, in order, that reaches the stop or a target (0: none)
FirstHit ==
    LET hits == {i \in 1..Len(btForward) : StopHit(i) \/ TpHit(i)}
    IN  IF hits = {} THEN 0 ELSE CHOOSE i \in hits : \A k \in hits : i <= k
\* the running adverse and favourable excursions over bars 1..k
Adverse(i) == IF BtBuy THEN btPlan.entry - btForward[i].l ELSE btForward[i].h - btPlan.entry
Favourable(i) == IF BtBuy THEN btForward[i].h - btPlan.entry ELSE btPlan.entry - btForward[i].l
MaeUpTo(k) == CHOOSE m \in {0} \cup {Adverse(i) : i \in 1..k} :
                  \A x \in {0} \cup {Adverse(i) : i \in 1..k} : m >= x
MfeUpTo(k) == CHOOSE m \in {0} \cup {Favourable(i) : i \in 1..k} :
                  \A x \in {0} \cup {Favourable(i) : i \in 1..k} : m >= x

\* what C23 says of one result: decided at the first bar that reaches the
\* stop or a target, SL with R = -1 when that bar reaches the stop, and NONE
\* with bars = the length of the forward list when no bar reaches either
ResolvedAtFirstHit ==
    /\ FirstHit = 0 =>
          /\ btRes.resolved = "NONE" /\ btRes.r = 0
          /\ btRes.bars = Len(btForward)
          /\ btRes.mae = MaeUpTo(Len(btForward)) /\ btRes.mfe = MfeUpTo(Len(btForward))
    /\ FirstHit > 0 =>
          /\ btRes.resolved \in {"SL", "TP1", "TP2", "TP3"}
          /\ btRes.bars = FirstHit
          /\ btRes.mae = MaeUpTo(FirstHit) /\ btRes.mfe = MfeUpTo(FirstHit)
          /\ StopHit(FirstHit) => btRes.resolved = "SL" /\ btRes.r = -1

\* C23 as stated, for every stored plan: the result is decided at the first
\* bar whose range reaches the stop or a TP, it is SL with R = -1 when that
\* bar crosses both, and NONE with bars equal to the horizon length when no
\* bar reaches either.
BacktestTerminalAnyPlan ==
    btPlan # NoRow => ResolvedAtFirstHit

\* a later bar is appended to the forward list of the same plan
LaterBar ==
    /\ btPlan # NoRow /\ btPlan' = btPlan
    /\ Len(btForward') = Len(btForward) + 1
    /\ SubSeq(btForward', 1, Len(btForward)) = btForward

BacktestFirstHit ==
    btPlan # NoRow =>
        IF BtRisk = 0 THEN btRes = BtResult("NONE", 0, 0, 0, 0)
        ELSE ResolvedAtFirstHit

BacktestLaterBars ==
    LaterBar /\ (FirstHit > 0 \/ BtRisk = 0) => btRes' = btRes

\* C23 (amended): for a plan with entry # stop the result is decided at the
\* first bar, in order, whose adverse extreme reaches the stop or whose
\* favourable extreme reaches a TP (SL with R = -1 when that bar reaches the
\* stop, also when it reaches a TP too), later bars change none of resolved,
\* R, MAE, MFE, bars, and without such a bar the result is NONE with bars =
\* the number of forward bars; a plan with entry = stop resolves NONE with
\* R, MAE, MFE and bars all 0 whatever the bars.
BacktestTerminal ==
    []BacktestFirstHit /\ [][BacktestLaterBars]_vars

\* a bar crossing both the stop and a TP resolved the trade, and a later bar
\* has been simulated since
BacktestTerminalWitness ==
    /\ btPlan # NoRow /\ BtRisk > 0
    /\ FirstHit > 0 /\ FirstHit < Len(btForward)
    /\ StopHit(FirstHit) /\ TpHit(FirstHit)
    /\ btRes.resolved = "SL"

\* a BUY plan whose stop sits below the entry and whose TPs sit above it
BuyPlanInOrder ==
    /\ btPlan # NoRow /\ BtBuy
    /\ btPlan.stop < btPlan.entry
    /\ btPlan.tp1 # None /\ btPlan.tp2 # None /\ btPlan.tp3 # None
    /\ btPlan.entry < btPlan.tp1[1]
    /\ btPlan.tp1[1] <= btPlan.tp2[1] /\ btPlan.tp2[1] <= btPlan.tp3[1]

\* forward bars whose highs and lows rise strictly from the entry on, and
\* the mirror
StrictlyRising ==
    /\ Len(btForward) >= 2
    /\ btForward[1].l >= btPlan.entry
    /\ \A i \in 1..(Len(btForward) - 1) :
          btForward[i + 1].l > btForward[i].l /\ btForward[i + 1].h > btForward[i].h
StrictlyFalling ==
    /\ Len(btForward) >= 2
    /\ btForward[1].h <= btPlan.entry
    /\ \A i \in 1..(Len(btForward) - 1) :
          btForward[i + 1].l < btForward[i].l /\ btForward[i + 1].h < btForward[i].h

\* C24 as stated: on a BUY plan in order a strictly rising forward sequence
\* resolves to one of TP1, TP2, TP3 and a strictly falling one to SL.
BacktestMonotoneAlways ==
    BuyPlanInOrder =>
        /\ StrictlyRising => btRes.resolved \in {"TP1", "TP2", "TP3"}
        /\ StrictlyFalling => btRes.resolved = "SL"

\* C24 (amended): on a BUY plan with stop < entry < tp1 <= tp2 <= tp3 a
\* strictly rising forward sequence that starts at or above the entry never
\* resolves SL: it resolves TP1 with R = 1 at the first bar whose high
\* reaches tp1 and NONE when no forward bar does; a strictly falling sequence
\* that starts at or below the entry never resolves to a TP: it resolves SL
\* at the first bar whose low reaches the stop and NONE when no bar does.
BacktestMonotone ==
    BuyPlanInOrder =>
        /\ StrictlyRising =>
              LET up == {i \in 1..Len(btForward) : btForward[i].h >= btPlan.tp1[1]}
              IN  IF up = {} THEN btRes.resolved = "NONE" /\ btRes.bars = Len(btForward)
                  ELSE /\ btRes.resolved = "TP1" /\ btRes.r = 1
                       /\ btRes.bars \in up /\ \A i \in up : btRes.bars <= i
        /\ StrictlyFalling =>
              LET down == {i \in 1..Len(btForward) : btForward[i].l <= btPlan.stop}
              IN  IF down = {} THEN btRes.resolved = "NONE" /\ btRes.bars = Len(btForward)
                  ELSE /\ btRes.resolved = "SL" /\ btRes.r = -1
                       /\ btRes.bars \in down /\ \A i \in down : btRes.bars <= i

\* three rising bars, the third of which reaches tp1
BacktestMonotoneWitness ==
    /\ BuyPlanInOrder /\ StrictlyRising
    /\ Len(btForward) = 3
    /\ btForward[2].h < btPlan.tp1[1] /\ btForward[3].h >= btPlan.tp1[1]
    /\ btRes.resolved = "TP1" /\ btRes.bars = 3

\* C25: when the resolving bar's favourable extreme reaches a TP and its
\* adverse extreme does not reach the stop, the trade resolves TP{j+1} with
\* R = j+1 and bars_to_resolve = that bar's 1-based index, j being the first
\* index, in ascending order, of a TP level the bar reaches.
BacktestTpResolution ==
    btPlan # NoRow /\ FirstHit > 0 /\ ~StopHit(FirstHit) /\ TpHit(FirstHit) =>
        LET tps == <<btPlan.tp1, btPlan.tp2, btPlan.tp3>>
            idx == {j \in 1..3 : tps[j] # None /\ TpHitAt(FirstHit, tps[j][1])}
            j == CHOOSE x \in idx : \A y \in idx : x <= y
        IN  /\ btRes.resolved = TpNames[j]
            /\ btRes.r = j
            /\ btRes.bars = FirstHit

\* the spec's scenario: BUY entry 100, stop 98, TPs 103/105/108, second bar
\* high 103.4 and low 99.0: TP1, R = 1, bars_to_resolve = 2
BacktestTpResolutionWitness ==
    /\ btPlan.side = "BUY" /\ btPlan.entry = 2000 /\ btPlan.stop = 1960
    /\ btPlan.tp1 = Some(2060) /\ btPlan.tp2 = Some(2100) /\ btPlan.tp3 = Some(2160)
    /\ Len(btForward) >= 2
    /\ btForward[2] = [h |-> 2068, l |-> 1980]
    /\ btRes = BtResult("TP1", 1, 20, 68, 2)

\* ------------------------------------------------- analysis backtest claims

\* the latest analysis step was a run of run_analysis_backtest
AfterRun == anLast.kind \in {"autorun", "endpoint"}
\* the alerts the join selected at that run: those with a trade plan
SelectedAtRun == {a \in anLast.store[1] : \E p \in anLast.store[2] : p.alert_id = a.id}

\* the resolutions _simulate_one gives plan row p over the forward candle
\* sequences of at most MaxForward candles
ResolutionsOf(p) ==
    {SimulateRow(p, fw).resolved :
        fw \in UNION {[1..k -> BtCandles] : k \in 0..MaxForward}}

\* C39: for a plan produced by build_trade_plan with its three targets,
\* there are forward candle sequences for which _simulate_one resolves to
\* TP1, to TP2, to TP3, to SL and to NONE.
EveryResolutionReachable ==
    btPlan # NoRow /\ btPlan.tp1 # None /\ btPlan.tp2 # None /\ btPlan.tp3 # None =>
        {"TP1", "TP2", "TP3", "SL", "NONE"} \subseteq ResolutionsOf(btPlan)

WinRatesInstalledAfterRun ==
    AfterRun => symbol_win_rates = ComputeSymbolWinRates(backtest_trades, MIN_TRADES)

\* the alerts of symbol s with a resolved backtest trade, and those won
ResolvedAlerts(s) ==
    {r.alert_id : r \in {x \in backtest_trades : x.symbol = s /\ x.resolved # "NONE"}}
WonAlerts(s) ==
    {r.alert_id : r \in {x \in backtest_trades :
                            x.symbol = s /\ x.resolved \in {"WIN", "TP1", "TP2", "TP3"}}}

\* C40: the win rates installed in the grader count each alert once: a
\* symbol is in the table iff it has at least 5 distinct resolved alerts, and
\* its rate is won alerts / resolved alerts, however many backtest_trades
\* rows (one per window_days and strategy_version) an alert has.
WinRatesCountAlertsOnce ==
    anLast.kind = "endpoint" =>
        /\ DOMAIN symbol_win_rates =
              {s \in {r.symbol : r \in backtest_trades} :
                  Cardinality(ResolvedAlerts(s)) >= MIN_TRADES}
        /\ \A s \in DOMAIN symbol_win_rates :
              /\ symbol_win_rates[s].total = Cardinality(ResolvedAlerts(s))
              /\ symbol_win_rates[s].wins = Cardinality(WonAlerts(s))

\* ------------------------------------------------------------ alerter claims

\* C28: two notifications for the same exchange:symbol are at least the
\* cohort cooldown apart (whatever their alert types), and two notifications
\* for the same symbol and alert type are at least ALERT_DEDUP_MIN_MS apart.
NotifyCooldowns ==
    \A x \in ntSent :
        /\ \A y \in ntSent : x.sym = y.sym => x = y
        /\ \A k \in DOMAIN ntPrev :
              k[1] = x.sym => ntCallTs - ntPrev[k] >= Cooldown(x.top200)
        /\ <<x.sym, x.type>> \in DOMAIN ntPrev =>
              ntCallTs - ntPrev[<<x.sym, x.type>>] >= ALERT_DEDUP_MIN_MS

\* the part of C28 that spans calls: a notification is at least the cohort
\* cooldown after every notification of an earlier call for its symbol
NotifyCooldownAcrossCalls ==
    \A x \in ntSent : \A k \in DOMAIN ntPrev :
        /\ k[1] = x.sym => ntCallTs - ntPrev[k] >= Cooldown(x.top200)
        /\ k = <<x.sym, x.type>> => ntCallTs - ntPrev[k] >= ALERT_DEDUP_MIN_MS

\* ------------------------------------------------------ persist failure claims

\* the emit of the kline task is at its fan-out and its persist block raised
FanoutAfterFailure ==
    /\ emAborted
    /\ emitPc["kline"] = "dispatch"
    /\ emitPc'["kline"] = "idle"

\* C29: when inserting an alert or a trade plan, or reading the swing
\* window, raises during an emit, the emit still reaches its fan-out, the
\* snapshot of that emit is enqueued to every subscriber, and the ingest
\* call that triggered the emit returns normally.
PersistFailureNotFatal ==
    /\ [](\A t \in EmitTasks : emitPc[t] \in {"idle", "dispatch"})
    /\ [][FanoutAfterFailure =>
            /\ subscribers' = subscribers
            /\ \A q \in Range(subscribers) : Last(queues'[q]) = emitPayload["kline"]
            /\ lastFanout' = emitPayload["kline"]]_vars

\* an emit whose persist block raised has been fanned out to a subscriber
PersistFailureNotFatalWitness ==
    /\ emAborted
    /\ \E i \in 1..Len(emFails) : emFails[i] \in {"get_recent", "insert_alert", "insert_trade_plan"}
    /\ emitPc["kline"] = "idle"
    /\ subscribers # <<>>
    /\ lastFanout.seq = built
    /\ \A q \in Range(subscribers) : queues[q] # <<>> /\ Last(queues[q]) = lastFanout

\* ------------------------------------------------------ recent candles claims

\* C30: get_recent_batch(exchange, symbols, interval, limit)[s] equals
\* get_recent(exchange, s, interval, limit), the last `limit` candles in
\* ascending open_time, for every requested symbol that has rows, and the
\* result holds no symbol that was not requested.
RecentBatchEquivalent ==
    rbArgs # NoRead =>
        /\ DOMAIN rbBatch \subseteq Range(rbArgs.symbols)
        /\ \A s \in Range(rbArgs.symbols) :
              rbSingle[s] # <<>> =>
                  /\ s \in DOMAIN rbBatch
                  /\ rbBatch[s] = rbSingle[s]
                  /\ Len(rbBatch[s]) <= rbArgs.limit
                  /\ \A i \in 1..(Len(rbBatch[s]) - 1) : rbBatch[s][i][1] < rbBatch[s][i + 1][1]

\* a read of two symbols with limit 2 while s1 holds three 15m rows: the two
\* latest come back for s1, and s2 has rows too
RecentBatchEquivalentWitness ==
    /\ rbArgs # NoRead
    /\ rbArgs.limit = 2 /\ rbArgs.interval = "15m"
    /\ {"s1", "s2"} \subseteq DOMAIN rbBatch
    /\ Len(rbBatch["s1"]) = 2
    /\ rbBatch["s1"][1][1] = 900000 /\ rbBatch["s1"][2][1] = 1800000

\* ------------------------------------------------------ task identity claims

\* C33: for each kline and ticker stream, at most one task is alive at any
\* time and it is the one the supervisor's slot refers to: every task the
\* slot no longer refers to has terminated.
OneTaskPerStream ==
    \A s \in StreamSlots : \A i \in 1..Len(old[s]) : old[s][i] \notin Live

\* C34: once stop() has ended, no kline or ticker stream task is running,
\* referenced by the supervisor or not.
ShutdownFinal ==
    stopPc \in {"returned", "raised"} /\ startPc = "started" =>
        \A s \in StreamSlots :
            /\ task[s] # "running"
            /\ \A i \in 1..Len(old[s]) : old[s][i] # "running"

\* ------------------------------------------------------ alert count claims

\* C35: one closed HTF bar of one symbol results in at most one alerts row
\* and at most one trade_plans row, however many snapshots are emitted while
\* it remains the symbol's latest closed bar.
OneAlertPerSignal ==
    \A s \in Symbols : sigRows[s].alerts <= 1 /\ sigRows[s].plans <= 1

\* ------------------------------------------------------ live state claims

\* C31: two consecutive _build_snapshot_payload calls on the same
\* aggregator, with no ingest, ticker or open-interest update between them,
\* return identical payloads.
SnapshotRepeatable ==
    snPrev # None => snPrev = snLast

\* the fields of a SymbolState other than open_interest and oi_1m
OtherFieldsEqual(a, b) ==
    /\ a.last_price = b.last_price
    /\ a.last_cipher_signal_ts = b.last_cipher_signal_ts
    /\ a.wtLen = b.wtLen
    /\ a.wtTail = b.wtTail

\* an update_open_interest call has just returned
OiStep == stOps' # stOps /\ stLast'.op = "update_open_interest"

\* C32: update_open_interest sets the symbol's open_interest and appends the
\* value to its oi_1m series (the symbol's state being created when it is
\* missing), and changes nothing else: no emit starts, no snapshot is built,
\* nothing is enqueued to a subscriber, last_emit_ts and the kline/ticker
\* ingest timestamps, the other symbols' states and the stores stay as they
\* were.
OpenInterestFrame ==
    [][OiStep =>
        LET s == stLast'.symbol
            new == states'[s]
        IN  /\ new.open_interest # None
            /\ IF s \in DOMAIN states
               THEN /\ new.oi_1m = RollingAppend(states[s].oi_1m, new.open_interest[1],
                                                 MAXLEN_1M)
                    /\ OtherFieldsEqual(new, states[s])
                    /\ state_keys' = state_keys
               ELSE /\ new.oi_1m = <<new.open_interest[1]>>
                    /\ \E seed \in SeedTails : OtherFieldsEqual(new, NewSymbolState(seed))
                    /\ state_keys' = Append(state_keys, s)
            /\ DOMAIN states' = DOMAIN states \cup {s}
            /\ \A o \in DOMAIN states \ {s} : states'[o] = states[o]
            /\ UNCHANGED <<now, aggVars, alVars, dbVars>>]_vars

\* an open-interest update arrived for a symbol that already had a value,
\* with a subscriber attached and an emit due by the throttle
OpenInterestFrameWitness ==
    /\ stLast.op = "update_open_interest"
    /\ Len(states[stLast.symbol].oi_1m) >= 2
    /\ subscribers # <<>>
    /\ now - last_emit_ts >= SNAPSHOT_INTERVAL_MS
    /\ built = 0

\* ------------------------------------------------------- reconnect claims

RECURSIVE Pow2(_)
Pow2(k) == IF k = 0 THEN 1 ELSE 2 * Pow2(k - 1)

ReconnectAlwaysWaits ==
    [][ \A s \in RcStreams :
          /\ (rcPc'[s] = "connecting" /\ rcPc[s] # "connecting") => rcPc[s] = "sleeping"
          /\ rcPc[s] = "cancelled" => rcPc'[s] = "cancelled" ]_vars

=============================================================================
